---- MODULE Spec2Model ----
(***************************************************************************)
(* The calibration pipeline of the backend: VisualService (feature         *)
(* resolution, rating-weighted aggregation, the parameter generator, the   *)
(* artifact store) and the /api/calibration endpoints in front of it.      *)
(*                                                                         *)
(* Real numbers are fixed-point integers in units of 1/Scale; a vector is  *)
(* a sequence of Dim of them.  Strings that the code hashes are image ids; *)
(* the per-process salt of Python's str hash is process state.             *)
(***************************************************************************)
EXTENDS Integers, Sequences, FiniteSets, TLC

(***************************************************************************)
(* Bounds of the model.                                                    *)
(***************************************************************************)
\* width of a feature vector (512 in the source, in_dim of the learner)
Dim == 2
\* number of hidden units of the generator (256 in the source)
Hidden == 1
\* worker processes serving requests over the same data directory
NWorkers == 2
\* calls started in one behaviour
MaxCalls == 2
\* largest value of the wall clock (it is read by datetime.utcnow() and may
\* have advanced, or not, between two reads)
MaxClock == 1
\* process restarts in one behaviour
MaxRestarts == 1
\* tokens that one flush of the file buffer carries to the file
BufTokens == 30
\* entries of one ratings mapping
MaxRatings == 2
\* ratings in a list handed to _calculate_confidence on its own
MaxListLen == 6
\* rated features handed to the aggregation on its own
MaxItems == 3
\* largest count asked of get_calibration_images (and -MaxCount the least)
MaxCount == 3
\* constructions of the service in one process
MaxConstructions == 3
\* answers in one psychometric submission
MaxAnswers == 3
\* committed psychometric rows beyond which no further submission is served
MaxResponses == 3

\* fixed-point unit; a multiple of 4, so that the weights (r-1)/4 are exact
Scale == 4 * 25

Users == {"u1", "u2"}
ImageIds == {"a", "b"}
Workers == 1..NWorkers
\* the ratings that requests carry: the ends of the valid range 1..5 and
\* their neighbours outside it
RatingVals == {0, 1, 5, 6}
ValidRatingVals == {1, 5}

(***************************************************************************)
(* Vectors and fixed-point arithmetic.                                     *)
(***************************************************************************)
Range(s) == {s[i] : i \in 1..Len(s)}

RECURSIVE SumSeq(_)
SumSeq(s) == IF s = <<>> THEN 0 ELSE Head(s) + SumSeq(Tail(s))

ZeroVec == [i \in 1..Dim |-> 0]

VecAdd(x, y) == [i \in 1..Dim |-> x[i] + y[i]]

\* floor of the square root, by bisection on lo..hi
RECURSIVE IsqrtIn(_, _, _)
IsqrtIn(n, lo, hi) ==
    IF lo >= hi THEN lo
    ELSE LET mid == (lo + hi + 1) \div 2
         IN  IF mid * mid <= n THEN IsqrtIn(n, mid, hi) ELSE IsqrtIn(n, lo, mid - 1)

Isqrt(n) == IsqrtIn(n, 0, 4 * Scale * Dim)

\* the Euclidean norm of a fixed-point vector, in fixed-point
Norm(v) == Isqrt(SumSeq([i \in 1..Dim |-> v[i] * v[i]]))

(***************************************************************************)
(* Process-wide state read by the pipeline: the salt of Python's str hash  *)
(* and the parameters of the learner are fixed when a process starts; the  *)
(* state of torch's global random-number generator changes as it is used.  *)
(***************************************************************************)
\* salts that a process may start with (PYTHONHASHSEED unset: one per run)
Salts == 1..2
\* initial parameter sets of the learner: no learner weights are loaded, and
\* torch's generator starts every process from its default seed
Thetas == {1}

\* the hash keeps the shape of the source (a signed value reduced to a
\* non-negative seed) at a width that TLC's integers hold: 2^8 for the
\* 64-bit hash, 2^4 for the seed's 2**32, 2^5 states of the generator
HashMod == 2^8
SeedMod == 2^4
RngMod == 2^5

IdCode(image_id) ==
    IF image_id = "a" THEN 1 ELSE IF image_id = "b" THEN 2
    ELSE IF image_id = "long" THEN 3 ELSE 4

\* hash(image_id): salted per process, signed
PyHash(salt_, image_id) ==
    ((IdCode(image_id) * 37 + salt_ * 101 + IdCode(image_id) * salt_ * 13) % HashMod)
        - (HashMod \div 2)

\* torch.manual_seed(seed): the generator's state after seeding
ManualSeed(seed) == seed % RngMod

RngNext(s) == (5 * s + 3) % RngMod

\* one standard-normal draw from state s, in fixed-point (never exactly 0)
RandnDraw(s) == <<-3, -2, -1, 1, 2, 3>>[(s % 6) + 1] * Scale

\* torch.randn(n): n draws, each advancing the generator
RECURSIVE Randn(_, _)
Randn(s, n) ==
    IF n = 0 THEN [rng |-> s, out |-> <<>>]
    ELSE LET r == Randn(RngNext(s), n - 1)
         IN  [rng |-> r.rng, out |-> <<RandnDraw(s)>> \o r.out]

\* F.normalize(v, dim=0): v / max(||v||, eps)
Normalize(v) ==
    LET nrm == Norm(v)
    IN  IF nrm = 0 THEN v ELSE [i \in 1..Dim |-> (v[i] * Scale) \div nrm]

\* _generate_demo_features without the call of torch.manual_seed
GenerateDemoFeaturesUnseeded(salt_, rng_, image_id, rating) ==
    LET r == Randn(rng_, Dim)
    IN  [rng |-> r.rng, features |-> Normalize(r.out)]

\* _generate_demo_features with the rating mixed into the seed
GenerateDemoFeaturesRated(salt_, rng_, image_id, rating) ==
    LET seed == (PyHash(salt_, image_id) + rating) % SeedMod
        r    == Randn(ManualSeed(seed), Dim)
    IN  [rng |-> r.rng, features |-> Normalize(r.out)]

\* _generate_demo_features: seeds the global generator from the id's hash,
\* draws, normalizes; the rating is not read
GenerateDemoFeatures(salt_, rng_, image_id, rating) ==
    LET seed == PyHash(salt_, image_id) % SeedMod
        r    == Randn(ManualSeed(seed), Dim)
    IN  [rng |-> r.rng, features |-> Normalize(r.out)]

(***************************************************************************)
(* The calibration image directory: content[<<id, ext>>] is 0 when the     *)
(* file does not exist, -1 when it exists and cannot be decoded, and a     *)
(* positive code of its picture otherwise.                                 *)
(***************************************************************************)
Exts == {"jpg", "png"}
\* an image id that a request may carry, that can be a file name and that is
\* longer than the image_id column is wide; the directory has no file for it
WideId == "wide"
FileNames == (ImageIds \cup {WideId}) \X Exts

NoImages == [f \in FileNames |-> 0]

\* the directories a behaviour may run over: empty; pictures for both ids
\* (a.jpg beside an a.png that is no image); a picture for a and a file for
\* b that is no image
DirConfigs ==
    { NoImages,
      [NoImages EXCEPT ![<<"a", "jpg">>] = 1, ![<<"a", "png">>] = -1, ![<<"b", "png">>] = 3],
      [NoImages EXCEPT ![<<"a", "png">>] = 3, ![<<"b", "jpg">>] = -1] }

\* the backbone's feature of a decoded picture (deterministic, parameters
\* fixed): picture 1 gives all zeros, picture 3 all ones
BackboneFeature(c) == [i \in 1..Dim |-> ((c - 1) * Scale) \div 2]

\* extract_single_feature that answers zeros for a file it cannot decode
ExtractSingleFeatureLenient(dir, path) ==
    [ok |-> TRUE, feature |-> IF dir[path] < 0 THEN ZeroVec ELSE BackboneFeature(dir[path])]

\* extract_single_feature: Image.open raises on a file that cannot be decoded
ExtractSingleFeature(dir, path) ==
    IF dir[path] < 0 THEN [ok |-> FALSE, feature |-> ZeroVec]
    ELSE [ok |-> TRUE, feature |-> BackboneFeature(dir[path])]

\* a lookup that prefers <id>.png
ImagePathPngFirst(dir, image_id) ==
    IF dir[<<image_id, "png">>] # 0 THEN <<image_id, "png">> ELSE <<image_id, "jpg">>

\* the path calibrate_user looks at: <id>.jpg, else <id>.png
ImagePath(dir, image_id) ==
    IF dir[<<image_id, "jpg">>] # 0 THEN <<image_id, "jpg">> ELSE <<image_id, "png">>

\* an image id that a request may carry and that, with ".jpg" appended, is
\* longer than the file system lets a file name be
LongId == "long"
NameTooLong(image_id) == image_id = LongId

\* image_path.exists() on such a name: os.stat fails with ENAMETOOLONG,
\* which pathlib passes on as OSError or, in later versions, answers False
ExistsOutcomes == {"raises", "absent"}

IsDemo(dir, image_id) == NameTooLong(image_id) \/ dir[ImagePath(dir, image_id)] = 0

(***************************************************************************)
(* The parameter generator (DynamicLearner).                               *)
(***************************************************************************)
\* the generator's parameters as initialized at construction: integer
\* weights derived from the parameter set theta
W1(theta, j, i) == ((theta + i + j) % 2) * 3 - 1
B1(theta, j) == theta % 2
W2(theta, k, j) == ((theta + k + j) % 2) * 3 - 2
B2(theta, k) == k % 2

\* nn.Linear(in_dim, hidden_dim) then nn.ReLU
GeneratorHidden(theta, x) ==
    [j \in 1..Hidden |->
        LET pre == SumSeq([i \in 1..Dim |-> W1(theta, j, i) * x[i]]) + B1(theta, j) * Scale
        IN  IF pre > 0 THEN pre ELSE 0]

\* self.generator(x): in_dim * out_dim + out_dim outputs (weights, then bias)
Generator(theta, x) ==
    LET h == GeneratorHidden(theta, x)
    IN  [k \in 1..(Dim + 1) |->
            SumSeq([j \in 1..Hidden |-> W2(theta, k, j) * h[j]]) + B2(theta, k) * Scale]

\* get_user_weights that returns the bias with the weights
GetUserWeightsAndBias(theta, aggregated_features) == Generator(theta, aggregated_features)

\* get_user_weights: params[0, :weight_num]
GetUserWeights(theta, aggregated_features) ==
    SubSeq(Generator(theta, aggregated_features), 1, Dim)

(***************************************************************************)
(* calibrate_user: the computation up to the artifact.                     *)
(***************************************************************************)
\* round(): a / b rounded to the nearest integer, a tie to the even one
\* (a >= 0, b > 0; the ties of the quotients met are exact in binary)
RoundDiv(a, b) ==
    LET q == a \div b
        r == a - q * b
    IN  IF 2 * r < b THEN q
        ELSE IF 2 * r > b THEN q + 1
        ELSE IF q % 2 = 0 THEN q ELSE q + 1

\* _calculate_confidence without the cap at 1.0
CalculateConfidenceUncapped(ratings_list) ==
    LET n  == Len(ratings_list)
        s1 == SumSeq(ratings_list)
        s2 == SumSeq([i \in 1..n |-> ratings_list[i] * ratings_list[i]])
    IN  IF n < 3 THEN Scale \div 2
        ELSE RoundDiv((n * s2 - s1 * s1) * Scale, 2 * n * (n - 1))

\* _calculate_confidence: 0.5 below 3 ratings, else
\* round(min(statistics.variance(ratings) / 2.0, 1.0), 2)
CalculateConfidence(ratings_list) ==
    LET n  == Len(ratings_list)
        s1 == SumSeq(ratings_list)
        s2 == SumSeq([i \in 1..n |-> ratings_list[i] * ratings_list[i]])
    IN  IF n < 3 THEN Scale \div 2
        ELSE LET c == RoundDiv((n * s2 - s1 * s1) * Scale, 2 * n * (n - 1))
             IN  IF c < Scale THEN c ELSE Scale

\* _detect_triggers: placeholders
DetectTriggers(liked_features, disliked_features) ==
    [mandatory_traits |-> <<"placeholder_positive_trait">>,
     negative_traits |-> <<"placeholder_negative_trait">>]

\* the loop when an id without a file is skipped
RECURSIVE ResolveFeaturesNoFallback(_, _, _, _, _)
ResolveFeaturesNoFallback(dir, salt_, exists_, ratings, acc) ==
    IF ratings = <<>> THEN acc
    ELSE
      LET e    == Head(ratings)
          path == ImagePath(dir, e.id)
      IN  IF NameTooLong(e.id) /\ exists_ = "raises"
          THEN [acc EXCEPT !.ok = FALSE, !.error = "File name too long"]
          ELSE IF ~NameTooLong(e.id) /\ dir[path] # 0
          THEN LET x == ExtractSingleFeature(dir, path)
               IN  IF ~x.ok
                   THEN [acc EXCEPT !.ok = FALSE, !.error = "cannot identify image file"]
                   ELSE ResolveFeaturesNoFallback(dir, salt_, exists_, Tail(ratings),
                            [acc EXCEPT !.features = Append(@, x.feature)])
          ELSE ResolveFeaturesNoFallback(dir, salt_, exists_, Tail(ratings), acc)

\* the loop over ratings.items(): ratings is a sequence of [id, rating] in
\* the mapping's order; acc carries the features resolved so far, the
\* generator's state and the demo calls made; ok is FALSE when an
\* extraction or image_path.exists() raised (the loop stops there);
\* exists_ is what exists() does with a name that is too long
RECURSIVE ResolveFeatures(_, _, _, _, _)
ResolveFeatures(dir, salt_, exists_, ratings, acc) ==
    IF ratings = <<>> THEN acc
    ELSE
      LET e    == Head(ratings)
          path == ImagePath(dir, e.id)
      IN  IF NameTooLong(e.id) /\ exists_ = "raises"
          THEN [acc EXCEPT !.ok = FALSE, !.error = "File name too long"]
          ELSE IF ~NameTooLong(e.id) /\ dir[path] # 0
          THEN LET x == ExtractSingleFeature(dir, path)
               IN  IF ~x.ok
                   THEN [acc EXCEPT !.ok = FALSE, !.error = "cannot identify image file"]
                   ELSE ResolveFeatures(dir, salt_, exists_, Tail(ratings),
                            [acc EXCEPT !.features = Append(@, x.feature)])
          ELSE LET g == GenerateDemoFeatures(salt_, acc.rng, e.id, e.rating)
               IN  ResolveFeatures(dir, salt_, exists_, Tail(ratings),
                       [acc EXCEPT !.features = Append(@, g.features),
                                   !.rng = g.rng,
                                   !.demo = @ \cup {[id |-> e.id, rating |-> e.rating,
                                                     out |-> g.features]}])

RECURSIVE VecSum(_)
VecSum(vs) == IF vs = <<>> THEN ZeroVec ELSE VecAdd(Head(vs), VecSum(Tail(vs)))

\* a weight of rating / 5
WeightFifths(rating) == (rating * Scale) \div 5

\* (ratings_tensor - 1) / 4.0
Weight(rating) == ((rating - 1) * Scale) \div 4

\* 1 / 1e-8, at the model's width
EpsInverse == Scale * Scale

\* the plain mean of the features, whatever their ratings
AggregateFeaturesUnweighted(features, ratings_list) ==
    LET t == VecSum(features) IN [d \in 1..Dim |-> t[d] \div Len(features)]

\* weighted_features.sum(dim=0) / (weights.sum() + 1e-8): in float32 the
\* epsilon is absorbed by every non-zero sum of weights and is the whole
\* denominator when the sum is 0
AggregateFeatures(features, ratings_list) ==
    LET n        == Len(features)
        weights  == [i \in 1..n |-> Weight(ratings_list[i])]
        weighted == [i \in 1..n |->
                        [d \in 1..Dim |-> (features[i][d] * weights[i]) \div Scale]]
        total    == VecSum(weighted)
        wsum     == SumSeq(weights)
    IN  IF wsum = 0 THEN [d \in 1..Dim |-> total[d] * EpsInverse]
        ELSE [d \in 1..Dim |-> (total[d] * Scale) \div wsum]

\* liked_stack.mean(dim=0)
Centroid(vs) == LET t == VecSum(vs) IN [d \in 1..Dim |-> t[d] \div Len(vs)]

\* only a rating of 5 counted as liked
LikedOnlyFive(r) == r >= 5

\* "rating >= 4"
Liked(r) == r >= 4

\* a rating of 3 counted as disliked
DislikedUpToThree(r) == r <= 3

\* "rating <= 2"
Disliked(r) == r <= 2

\* liked_features: the features of the ratings >= 4, in the loop's order
LikedFeatures(features, ratings_list) ==
    LET idx == SelectSeq([i \in 1..Len(features) |-> i], LAMBDA i : Liked(ratings_list[i]))
    IN  [k \in 1..Len(idx) |-> features[idx[k]]]

\* disliked_features: the features of the ratings <= 2
DislikedFeatures(features, ratings_list) ==
    LET idx == SelectSeq([i \in 1..Len(features) |-> i], LAMBDA i : Disliked(ratings_list[i]))
    IN  [k \in 1..Len(idx) |-> features[idx[k]]]

NoVector == <<>>

\* the value that stands where there is no artifact
NoArtifact ==
    [meta |-> [user_id |-> "", gender |-> "", preference_target |-> "",
               calibration_timestamp |-> 0, images_rated |-> 0],
     self_analysis |-> [embedding_vector |-> NoVector,
                        detected_traits |-> [facial_landmarks |-> <<>>,
                                             style_presentation |-> <<>>,
                                             vibe_tags |-> <<>>]],
     preference_model |-> [ideal_vector |-> NoVector,
                           attraction_triggers |-> [mandatory_traits |-> <<>>,
                                                    negative_traits |-> <<>>],
                           calibration_confidence |-> 0]]

\* ideal_vector: the centroid of the liked features, [] when there is none
IdealVector(features, ratings_list) ==
    LET liked == LikedFeatures(features, ratings_list)
    IN  IF liked # <<>> THEN Centroid(liked) ELSE NoVector

\* "x or 'unspecified'" ("" stands for None)
OrUnspecified(x) == IF x = "" THEN "unspecified" ELSE x

\* calibrate_user up to (not including) save_vector: the exception raised,
\* or the vector_data built
CalibrateCompute(dir, salt_, rng_, theta, now_, exists_, user_id, ratings, gender, preference_target) ==
    IF ratings = <<>>
    THEN [status |-> "ValueError", detail |-> "No ratings provided for calibration",
          vector_data |-> NoArtifact, rng |-> rng_, demo |-> {}]
    ELSE
      LET res == ResolveFeatures(dir, salt_, exists_, ratings,
                     [ok |-> TRUE, error |-> "", features |-> <<>>, rng |-> rng_,
                      demo |-> {}])
      IN  IF ~res.ok
          THEN [status |-> "Exception", detail |-> res.error,
                vector_data |-> NoArtifact, rng |-> res.rng, demo |-> res.demo]
          ELSE IF res.features = <<>>
          THEN [status |-> "ValueError", detail |-> "No valid ratings for calibration",
                vector_data |-> NoArtifact, rng |-> res.rng, demo |-> res.demo]
          ELSE
            LET ratings_list == [i \in 1..Len(ratings) |-> ratings[i].rating]
                liked        == LikedFeatures(res.features, ratings_list)
                disliked     == DislikedFeatures(res.features, ratings_list)
                aggregated   == AggregateFeatures(res.features, ratings_list)
                embedding    == GetUserWeights(theta, aggregated)
                ideal        == IdealVector(res.features, ratings_list)
            IN  [status |-> "ok", detail |-> "",
                 vector_data |->
                   [meta |-> [user_id |-> user_id,
                              gender |-> OrUnspecified(gender),
                              preference_target |-> OrUnspecified(preference_target),
                              calibration_timestamp |-> now_,
                              images_rated |-> Len(ratings)],
                    self_analysis |-> [embedding_vector |-> embedding,
                                       detected_traits |->
                                         [facial_landmarks |-> <<"placeholder">>,
                                          style_presentation |-> <<"placeholder">>,
                                          vibe_tags |-> <<"placeholder">>]],
                    preference_model |-> [ideal_vector |-> ideal,
                                          attraction_triggers |-> DetectTriggers(liked, disliked),
                                          calibration_confidence |->
                                              CalculateConfidence(ratings_list)]],
                 rng |-> res.rng, demo |-> res.demo]

(***************************************************************************)
(* The artifact on disk: json.dump writes the document as a sequence of    *)
(* tokens, json.load parses them back.  A token is [t, s, n]: punctuation, *)
(* a key, a string or a number.                                            *)
(***************************************************************************)
Punct(p) == [t |-> p, s |-> "", n |-> 0]
Key(k) == [t |-> "key", s |-> k, n |-> 0]
Str(x) == [t |-> "str", s |-> x, n |-> 0]
Num(x) == [t |-> "num", s |-> "", n |-> x]
\* datetime.utcnow().isoformat() + "Z" of clock value x
IsoStr(x) == [t |-> "str", s |-> "Z", n |-> x]
\* a byte range that was never written (a hole of the file)
Nul == [t |-> "nul", s |-> "", n |-> 0]

EncodeStrList(l) == <<Punct("[")>> \o [i \in 1..Len(l) |-> Str(l[i])] \o <<Punct("]")>>
\* a number list written with one digit less than the numbers have
EncodeNumListRounded(l) ==
    <<Punct("[")>> \o [i \in 1..Len(l) |-> Num((l[i] \div 10) * 10)] \o <<Punct("]")>>

EncodeNumList(l) == <<Punct("[")>> \o [i \in 1..Len(l) |-> Num(l[i])] \o <<Punct("]")>>

\* json.dump(vector_data, f, indent=2): the document, in the dict's order
JsonDump(a) ==
    <<Punct("{"), Key("meta"), Punct("{"),
      Key("user_id"), Str(a.meta.user_id),
      Key("gender"), Str(a.meta.gender),
      Key("preference_target"), Str(a.meta.preference_target),
      Key("calibration_timestamp"), IsoStr(a.meta.calibration_timestamp),
      Key("images_rated"), Num(a.meta.images_rated),
      Punct("}"),
      Key("self_analysis"), Punct("{"),
      Key("embedding_vector")>> \o EncodeNumList(a.self_analysis.embedding_vector) \o
    <<Key("detected_traits"), Punct("{"),
      Key("facial_landmarks")>> \o EncodeStrList(a.self_analysis.detected_traits.facial_landmarks) \o
    <<Key("style_presentation")>> \o EncodeStrList(a.self_analysis.detected_traits.style_presentation) \o
    <<Key("vibe_tags")>> \o EncodeStrList(a.self_analysis.detected_traits.vibe_tags) \o
    <<Punct("}"), Punct("}"),
      Key("preference_model"), Punct("{"),
      Key("ideal_vector")>> \o EncodeNumList(a.preference_model.ideal_vector) \o
    <<Key("attraction_triggers"), Punct("{"),
      Key("mandatory_traits")>> \o EncodeStrList(a.preference_model.attraction_triggers.mandatory_traits) \o
    <<Key("negative_traits")>> \o EncodeStrList(a.preference_model.attraction_triggers.negative_traits) \o
    <<Punct("}"),
      Key("calibration_confidence"), Num(a.preference_model.calibration_confidence),
      Punct("}"), Punct("}")>>

\* the items of a list up to its "]"
RECURSIVE TakeItems(_, _, _)
TakeItems(rest, t, acc) ==
    IF rest = <<>> THEN [ok |-> FALSE, rest |-> <<>>, val |-> <<>>]
    ELSE IF Head(rest) = Punct("]") THEN [ok |-> TRUE, rest |-> Tail(rest), val |-> acc]
    ELSE IF Head(rest).t = t
         THEN TakeItems(Tail(rest), t, Append(acc, IF t = "num" THEN Head(rest).n ELSE Head(rest).s))
         ELSE [ok |-> FALSE, rest |-> <<>>, val |-> <<>>]

\* a list whose items are all of kind t
TakeList(rest, t) ==
    IF rest # <<>> /\ Head(rest) = Punct("[") THEN TakeItems(Tail(rest), t, <<>>)
    ELSE [ok |-> FALSE, rest |-> <<>>, val |-> <<>>]

\* what the parser meets in a document of the artifact's shape: a token
\* that must be there, a scalar of a kind, or a list of items of a kind
Lit(tok) == [k |-> "lit", tok |-> tok, of |-> ""]
Scalar(t) == [k |-> "scalar", tok |-> Nul, of |-> t]
ListOf(t) == [k |-> "list", tok |-> Nul, of |-> t]

ArtifactShape ==
    <<Lit(Punct("{")), Lit(Key("meta")), Lit(Punct("{")),
      Lit(Key("user_id")), Scalar("str"),
      Lit(Key("gender")), Scalar("str"),
      Lit(Key("preference_target")), Scalar("str"),
      Lit(Key("calibration_timestamp")), Scalar("str"),
      Lit(Key("images_rated")), Scalar("num"),
      Lit(Punct("}")),
      Lit(Key("self_analysis")), Lit(Punct("{")),
      Lit(Key("embedding_vector")), ListOf("num"),
      Lit(Key("detected_traits")), Lit(Punct("{")),
      Lit(Key("facial_landmarks")), ListOf("str"),
      Lit(Key("style_presentation")), ListOf("str"),
      Lit(Key("vibe_tags")), ListOf("str"),
      Lit(Punct("}")), Lit(Punct("}")),
      Lit(Key("preference_model")), Lit(Punct("{")),
      Lit(Key("ideal_vector")), ListOf("num"),
      Lit(Key("attraction_triggers")), Lit(Punct("{")),
      Lit(Key("mandatory_traits")), ListOf("str"),
      Lit(Key("negative_traits")), ListOf("str"),
      Lit(Punct("}")),
      Lit(Key("calibration_confidence")), Scalar("num"),
      Lit(Punct("}")), Lit(Punct("}"))>>

\* the parser: the values met, in order, or ok = FALSE when the tokens are
\* not one complete document of that shape
RECURSIVE ParseBy(_, _, _)
ParseBy(rest, shape, acc) ==
    IF shape = <<>> THEN [ok |-> rest = <<>>, vals |-> acc]
    ELSE
      LET it == Head(shape)
      IN  IF rest = <<>> THEN [ok |-> FALSE, vals |-> <<>>]
          ELSE IF it.k = "lit"
          THEN IF Head(rest) = it.tok THEN ParseBy(Tail(rest), Tail(shape), acc)
               ELSE [ok |-> FALSE, vals |-> <<>>]
          ELSE IF it.k = "scalar"
          THEN IF Head(rest).t = it.of
               THEN ParseBy(Tail(rest), Tail(shape),
                            Append(acc, [s |-> Head(rest).s, n |-> Head(rest).n, l |-> <<>>]))
               ELSE [ok |-> FALSE, vals |-> <<>>]
          ELSE LET r == TakeList(rest, it.of)
               IN  IF r.ok
                   THEN ParseBy(r.rest, Tail(shape), Append(acc, [s |-> "", n |-> 0, l |-> r.val]))
                   ELSE [ok |-> FALSE, vals |-> <<>>]

\* json.load on the file's tokens: the dict, or malformed (JSONDecodeError)
JsonLoad(toks) ==
    LET p == ParseBy(toks, ArtifactShape, <<>>)
        v == p.vals
    IN  IF p.ok /\ v[4].s = "Z"
        THEN [ok |-> TRUE,
              val |-> [meta |-> [user_id |-> v[1].s, gender |-> v[2].s,
                                 preference_target |-> v[3].s,
                                 calibration_timestamp |-> v[4].n,
                                 images_rated |-> v[5].n],
                       self_analysis |-> [embedding_vector |-> v[6].l,
                                          detected_traits |->
                                            [facial_landmarks |-> v[7].l,
                                             style_presentation |-> v[8].l,
                                             vibe_tags |-> v[9].l]],
                       preference_model |-> [ideal_vector |-> v[10].l,
                                             attraction_triggers |->
                                               [mandatory_traits |-> v[11].l,
                                                negative_traits |-> v[12].l],
                                             calibration_confidence |-> v[13].n]]]
        ELSE [ok |-> FALSE, val |-> NoArtifact]

(***************************************************************************)
(* The file of one user, profiles/<user_id>/p1_visual_vector.json.         *)
(***************************************************************************)
NoFile == [exists |-> FALSE, data |-> <<>>]

\* open(path, "a"): the file keeps its content, writes go to its end
OpenAppend(file) == [file |-> [exists |-> TRUE, data |-> file.data], pos |-> Len(file.data)]

\* open(path, "w"): the file is created or truncated, writes start at 0
OpenWrite(file) == [file |-> [exists |-> TRUE, data |-> <<>>], pos |-> 0]

\* write(2) of chunk at position pos; a gap before pos reads as NULs
WriteAt(file, pos, chunk) ==
    LET d      == file.data
        padded == IF Len(d) < pos THEN d \o [i \in 1..(pos - Len(d)) |-> Nul] ELSE d
    IN  [exists |-> TRUE,
         data |-> SubSeq(padded, 1, pos) \o chunk
                    \o SubSeq(padded, pos + Len(chunk) + 1, Len(padded))]

\* one file name for the artifacts of all users
VectorPathShared(user_id) == "u1"

\* vector_path: profiles_dir / user_id / "p1_visual_vector.json", named here
\* by the user id that distinguishes it
VectorPath(user_id) == user_id

\* load_vector that answers a default artifact when the file is missing
LoadVectorDefault(file) ==
    IF ~file.exists THEN [kind |-> "artifact", val |-> NoArtifact]
    ELSE LET j == JsonLoad(file.data)
         IN  IF j.ok THEN [kind |-> "artifact", val |-> j.val]
             ELSE [kind |-> "JSONDecodeError", val |-> NoArtifact]

\* load_vector on the user's file: None, the parsed dict, or the parser's error
LoadVector(file) ==
    IF ~file.exists THEN [kind |-> "None", val |-> NoArtifact]
    ELSE LET j == JsonLoad(file.data)
         IN  IF j.ok THEN [kind |-> "artifact", val |-> j.val]
             ELSE [kind |-> "JSONDecodeError", val |-> NoArtifact]

(***************************************************************************)
(* get_calibration_images: the listing of the calibration directory.  A    *)
(* file name is <<stem, ext>>, ext being the characters after the dot.     *)
(***************************************************************************)
ListingStems == {"a", "b"}
ListingExts == {<<"j", "p", "g">>, <<"p", "n", "g">>, <<"t", "x", "t">>}
ListingNames == ListingStems \X ListingExts

\* glob("*.[jp][pn][g]") on a file name
GlobMatches(name) ==
    LET e == name[2]
    IN  Len(e) = 3 /\ e[1] \in {"j", "p"} /\ e[2] \in {"p", "n"} /\ e[3] = "g"

\* the order of characters, and of file names as sorted() compares them
CharRank(c) ==
    CASE c = "a" -> 1 [] c = "b" -> 2 [] c = "g" -> 3 [] c = "j" -> 4
      [] c = "n" -> 5 [] c = "p" -> 6 [] c = "t" -> 7 [] OTHER -> 8

NameRank(name) ==
    ((CharRank(name[1]) * 10 + CharRank(name[2][1])) * 10 + CharRank(name[2][2])) * 10
        + CharRank(name[2][3])

\* sorted(real_images)
RECURSIVE Sorted(_)
Sorted(S) ==
    IF S = {} THEN <<>>
    ELSE LET least == CHOOSE x \in S : \A y \in S : NameRank(x) <= NameRank(y)
         IN  <<least>> \o Sorted(S \ {least})

\* s[:count]: a negative count is taken from the end of the list
SliceTo(s, count) ==
    IF count >= 0 THEN SubSeq(s, 1, IF count < Len(s) THEN count ELSE Len(s))
    ELSE SubSeq(s, 1, IF Len(s) + count > 0 THEN Len(s) + count ELSE 0)

\* the dict of a real image: id is the stem, filename stem.ext, url the
\* endpoint that serves the file
ImageEntry(name) == [demo |-> FALSE, stem |-> name[1], n |-> 0, ext |-> name[2]]

\* the dict of a placeholder: id demo_<n>, filename demo_<n>.jpg, url of
\* the placeholder host
DemoEntry(i) == [demo |-> TRUE, stem |-> "demo", n |-> i, ext |-> <<"j", "p", "g">>]

\* get_calibration_images(count) over a directory holding the files names
GetCalibrationImages(names, count) ==
    LET real   == SliceTo(Sorted({x \in names : GlobMatches(x)}), count)
        images == [i \in 1..Len(real) |-> ImageEntry(real[i])]
    IN  IF images # <<>> THEN images ELSE [i \in 1..count |-> DemoEntry(i)]

(***************************************************************************)
(* The construction of the service: VisualService.__new__ and __init__ on  *)
(* the class of one process.                                               *)
(***************************************************************************)
\* the arguments of VisualService(...); "" is None
DataDirs == {"/app/data", "/srv/data"}
\* a device torch knows and one it does not
DeviceArgs == {"", "cpu", "bogus"}
\* no path, a path that does not exist, a file holding a matching state
\* dict, and a file torch.load cannot read
WeightsArgs == {"", "missing", "state_dict", "garbage"}
ConstructorArgs ==
    [data_dir : DataDirs, device : DeviceArgs,
     backbone_weights : WeightsArgs, learner_weights : WeightsArgs]

\* a network: the construction that built it and the weights it holds
NoModel == [load |-> 0, weights |-> ""]
\* _instance is None: id 0
NoInstance ==
    [id |-> 0, initialized |-> FALSE, data_dir |-> "", profiles_dir |-> <<>>,
     calibration_dir |-> <<>>, device |-> "", backbone |-> NoModel, learner |-> NoModel,
     transform |-> FALSE]
NoArgs == [data_dir |-> "", device |-> "", backbone_weights |-> "", learner_weights |-> ""]
\* the class before the first construction, with the log of its constructions:
\* how many instances were made, which constructions built networks, the
\* first construction that returned, and what the last one was given and gave
NoClass ==
    [instance |-> NoInstance, made |-> 0, constructions |-> 0, loadedAt |-> {},
     completed |-> 0, mkdirs |-> {},
     last |-> [args |-> NoArgs, raised |-> FALSE, id |-> 0]]

\* __new__ making an instance on every construction
NewEveryTime(c) ==
    [c EXCEPT !.instance = [NoInstance EXCEPT !.id = c.made + 1], !.made = @ + 1]

\* __new__: the instance is made when _instance is None
New(c) ==
    IF c.instance.id = 0
    THEN [c EXCEPT !.instance = [NoInstance EXCEPT !.id = c.made + 1], !.made = @ + 1]
    ELSE c

\* torch.device(...) of __init__: cuda_available is torch.cuda.is_available()
TorchDevice(device, cuda_available) ==
    IF device = "" THEN (IF cuda_available THEN "cuda" ELSE "cpu") ELSE device

\* load_state_dict(torch.load(path)) when a path is given and exists
LoadWeights(model, path) ==
    IF path \in {"", "missing"} THEN model ELSE [model EXCEPT !.weights = "custom"]

\* __init__(self, data_dir, device, backbone_weights, learner_weights) as the
\* n-th construction: the instance after it, whether it raised, whether it
\* built the networks, and the directories it made
ServiceInit(self, args, cuda_available, n) ==
    IF self.initialized
    THEN [self |-> self, raised |-> FALSE, loaded |-> FALSE, mkdirs |-> {}]
    ELSE
      LET s1 == [self EXCEPT !.data_dir = args.data_dir,
                             !.profiles_dir = <<args.data_dir, "profiles">>,
                             !.calibration_dir = <<args.data_dir, "global_calibration">>]
          made == {s1.profiles_dir, s1.calibration_dir}
          s2 == [s1 EXCEPT !.device = TorchDevice(args.device, cuda_available),
                           !.backbone = [load |-> n, weights |-> "pretrained"],
                           !.learner = [load |-> n, weights |-> "random"]]
          s3 == [s2 EXCEPT !.backbone = LoadWeights(@, args.backbone_weights)]
          s4 == [s3 EXCEPT !.learner = LoadWeights(@, args.learner_weights)]
      IN  IF args.device = "bogus"
          THEN [self |-> s1, raised |-> TRUE, loaded |-> FALSE, mkdirs |-> made]
          ELSE IF args.backbone_weights = "garbage"
          THEN [self |-> s2, raised |-> TRUE, loaded |-> TRUE, mkdirs |-> made]
          ELSE IF args.learner_weights = "garbage"
          THEN [self |-> s3, raised |-> TRUE, loaded |-> TRUE, mkdirs |-> made]
          ELSE [self |-> [s4 EXCEPT !.transform = TRUE, !.initialized = TRUE],
                raised |-> FALSE, loaded |-> TRUE, mkdirs |-> made]

(***************************************************************************)
(* State.                                                                  *)
(***************************************************************************)
VARIABLES
    dir,          \* the calibration image directory
    files,        \* files[u]: the artifact file of user u
    dbRows,       \* committed rows of calibration_ratings, oldest first
    complete,     \* complete[u]: the committed calibration_complete flag
    now,          \* the wall clock as the last call read it
    up,           \* up[w]: worker process w is running
    epoch,        \* epoch[w]: how often w was started
    salt,         \* salt[w]: the str-hash salt of the running process
    theta,        \* theta[w]: the learner's parameters of the running process
    rng,          \* rng[w]: the state of torch's global generator
    pc,           \* pc[w]: where w's request stands
    req,          \* req[w]: the request w is serving
    vector_data,  \* vector_data[w]: the artifact calibrate_user built
    pos,          \* pos[w]: position of the open file, tokens of the document written
    session,      \* session[w]: rows added to w's db session, not committed
    resp,         \* resp[w]: the outcome of the last call w finished
    started,      \* calls started so far
    ncalls,       \* calls of calibrate_user so far
    returned,     \* returned[u]: the artifact of the last call that returned for u
    saved,        \* saved[u]: some save_vector for u has completed
    hist,         \* the last two calls of calibrate_user that returned
    demoLog,      \* demoLog[w]: demo features made by the running process
    demoAll,      \* demoAll[w]: demo features made by every run of w
    call,         \* a call of one function of the service on its own: its arguments
    result,       \* what that call returned
    cls,          \* the VisualService class of one process: its instance and what built it
    dialect,      \* the database the deployment is configured for
    users,        \* the committed rows of the users table that register made, oldest first
    reg,          \* reg[w]: the register request w is serving or has served
    tokens,       \* the user ids for which register has issued an access token
    psychometric_complete,\* psychometric_complete[u]: the committed psychometric_complete flag
    responses     \* the committed rows of psychometric_responses

vars == <<responses, psychometric_complete, tokens, reg, users, dialect, cls, dir, files, dbRows, complete, now, up, epoch, salt, theta, rng, pc, req,
          vector_data, pos, session, resp, started, ncalls, returned, saved, hist,
          demoLog, demoAll, call, result>>

\* no function is called on its own
NoCall ==
    [fn |-> "none", ratings |-> <<>>, features |-> <<>>, names |-> {}, count |-> 0,
     dir |-> NoImages, items |-> <<>>]
NoResult ==
    [done |-> FALSE, confidence |-> 0, vector |-> <<>>, images |-> <<>>,
     liked |-> <<>>, disliked |-> <<>>, ok |-> TRUE, features |-> <<>>, demo |-> {}]

\* the registered attributes of the users (nullable columns: "" is None)
Gender(u) == IF u = "u1" THEN "female" ELSE ""
PreferenceTarget(u) == IF u = "u1" THEN "male" ELSE ""

NoReq == [kind |-> "none", user |-> "", ratings |-> <<>>]
\* no register request: where the handler stands, what the request carries,
\* its answer and the user id of the token it issued (0: none)
NoRegister ==
    [at |-> "none", email |-> "", username |-> "", status |-> "none", detail |-> "",
     token |-> 0]
\* a response: the call it answers (its kind, its user, how many ratings it
\* carried and whether all were in 1..5), the status and the body
NoResp == [kind |-> "none", user |-> "", nratings |-> 0, inrange |-> TRUE,
           status |-> "none", detail |-> "", body |-> NoArtifact]

\* ratings mappings of at most n entries over vals, as the sequence of
\* their items (ids in the order a, b)
RECURSIVE RatingSeqs(_, _)
RatingSeqs(n, vals) ==
    IF n = 0 THEN {<<>>}
    ELSE LET shorter == RatingSeqs(n - 1, vals)
         IN  shorter \cup
             {Append(q, [id |-> i, rating |-> r]) :
                 q \in {x \in shorter : Len(x) = n - 1}, i \in ImageIds, r \in vals}

OrderedIds(q) == \A i, j \in 1..Len(q) : i < j => IdCode(q[i].id) < IdCode(q[j].id)

\* what a request body may carry (Dict[str, int])
Submissions == {q \in RatingSeqs(MaxRatings, RatingVals) : OrderedIds(q)}
\* what a caller that respects calibrate_user's contract passes
ValidSubmissions == {q \in RatingSeqs(MaxRatings, ValidRatingVals) : OrderedIds(q)}

InRange(ratings) == \A i \in 1..Len(ratings) : ratings[i].rating \in 1..5

\* the service and its stores before any process has started
InitService ==
    /\ responses = <<>>
    /\ psychometric_complete = [u \in Users |-> FALSE]
    /\ tokens = {}
    /\ reg = [w \in Workers |-> NoRegister]
    /\ users = <<>>
    /\ cls = NoClass
    /\ dir \in DirConfigs
    /\ files = [u \in Users |-> NoFile]
    /\ dbRows = <<>>
    /\ complete = [u \in Users |-> FALSE]
    /\ now = 0
    /\ up = [w \in Workers |-> FALSE]
    /\ epoch = [w \in Workers |-> 0]
    /\ salt = [w \in Workers |-> 0]
    /\ theta = [w \in Workers |-> 0]
    /\ rng = [w \in Workers |-> 0]
    /\ pc = [w \in Workers |-> "idle"]
    /\ req = [w \in Workers |-> NoReq]
    /\ vector_data = [w \in Workers |-> NoArtifact]
    /\ pos = [w \in Workers |-> [at |-> 0, done |-> 0]]
    /\ session = [w \in Workers |-> <<>>]
    /\ resp = [w \in Workers |-> NoResp]
    /\ started = 0
    /\ ncalls = 0
    /\ returned = [u \in Users |-> [present |-> FALSE, val |-> NoArtifact]]
    /\ saved = [u \in Users |-> FALSE]
    /\ hist = <<>>
    /\ demoLog = [w \in Workers |-> {}]
    /\ demoAll = [w \in Workers |-> {}]

Init ==
    /\ InitService
    /\ dialect = "sqlite"
    /\ call = NoCall
    /\ result = NoResult

(***************************************************************************)
(* Operations.                                                             *)
(***************************************************************************)
\* what a start of process w sets: Python draws the hash salt, the first
\* VisualService() builds the models, torch's generator is at its default
Boot(w) ==
    /\ \E s \in Salts, t \in Thetas :
          /\ salt' = [salt EXCEPT ![w] = s]
          /\ theta' = [theta EXCEPT ![w] = t]
    /\ up' = [up EXCEPT ![w] = TRUE]
    /\ epoch' = [epoch EXCEPT ![w] = @ + 1]
    /\ rng' = [rng EXCEPT ![w] = 0]
    /\ session' = [session EXCEPT ![w] = <<>>]
    /\ demoLog' = [demoLog EXCEPT ![w] = {}]
    /\ UNCHANGED <<cls, dialect, users, reg, tokens, psychometric_complete, responses, call, result, dir, files, dbRows, complete, now, pc, req, vector_data, pos, resp,
                   started, ncalls, returned, saved, hist, demoAll>>

\* process w starts
StartProcess(w) ==
    /\ ~up[w]
    /\ Boot(w)

\* process w, between two requests, is stopped and started again
RestartProcess(w) ==
    /\ up[w] /\ pc[w] = "idle"
    /\ epoch[w] <= MaxRestarts
    /\ demoLog[w] # {}
    /\ Boot(w)

\* the store when calibrate_user raises with the file already opened for writing
StoreOnRaiseOpened(fs, u) == [fs EXCEPT ![u] = OpenWrite(fs[u]).file]

\* the store when calibrate_user raises: every raise precedes save_vector
StoreOnRaise(fs, u) == fs

\* what image_path.exists() may do in a call with these ratings
ExistsFor(ratings) ==
    IF \E i \in 1..Len(ratings) : NameTooLong(ratings[i].id) THEN ExistsOutcomes
    ELSE {"absent"}

\* the status a failure of calibrate_user gets: as raised for a direct
\* call, 400 for a ValueError and 500 for any other exception over HTTP
FailureStatus(kind, status) ==
    IF kind = "direct" THEN status
    ELSE IF status = "ValueError" THEN "400" ELSE "500"

\* calibrate_user(user_id, ratings, gender, preference_target) called by w,
\* up to the call of save_vector; rows are the rows the caller has pending
Calibrate(w, u, ratings, kind, rows) ==
  \E t \in now..MaxClock, x \in ExistsFor(ratings) :
    LET out == CalibrateCompute(dir, salt[w], rng[w], theta[w], t, x, u, ratings,
                                Gender(u), PreferenceTarget(u))
    IN  /\ ncalls' = ncalls + 1
        /\ now' = IF out.status = "ok" THEN t ELSE now
        /\ rng' = [rng EXCEPT ![w] = out.rng]
        /\ demoLog' = [demoLog EXCEPT ![w] = @ \cup out.demo]
        /\ demoAll' = [demoAll EXCEPT ![w] = @ \cup out.demo]
        /\ IF out.status = "ok"
           THEN /\ pc' = [pc EXCEPT ![w] = "save_open"]
                /\ req' = [req EXCEPT ![w] = [kind |-> kind, user |-> u, ratings |-> ratings]]
                /\ vector_data' = [vector_data EXCEPT ![w] = out.vector_data]
                /\ session' = [session EXCEPT ![w] = rows]
                /\ UNCHANGED <<resp, files>>
           ELSE /\ resp' = [resp EXCEPT ![w] =
                              [kind |-> kind, user |-> u, nratings |-> Len(ratings),
                               inrange |-> InRange(ratings),
                               status |-> FailureStatus(kind, out.status),
                               detail |-> out.detail, body |-> NoArtifact]]
                /\ files' = StoreOnRaise(files, u)
                /\ session' = [session EXCEPT ![w] = <<>>]
                /\ UNCHANGED <<pc, req, vector_data>>
        /\ UNCHANGED <<cls, dialect, users, reg, tokens, psychometric_complete, responses, call, result, dir, dbRows, complete, up, epoch, salt, theta, pos,
                       returned, saved, hist>>

\* a collaborator calls calibrate_user directly
CalibrateUser(w, u, ratings) ==
    /\ up[w] /\ pc[w] = "idle" /\ started < MaxCalls
    /\ started' = started + 1
    /\ Calibrate(w, u, ratings, "direct", <<>>)

\* a rating accepted although it is below 1
ValidRatingNoLowerBound(r) == r <= 5

\* "1 <= rating <= 5"
ValidRating(r) == 1 <= r /\ r <= 5

\* str(rating), for the one-digit ratings that requests carry
StrOfRating(rating) == <<"0", "1", "2", "3", "4", "5", "6", "7", "8", "9">>[rating + 1]

\* the CalibrationRating rows of a submission
RatingRows(u, ratings) ==
    [i \in 1..Len(ratings) |->
        [user_id |-> u, image_id |-> ratings[i].id, rating |-> StrOfRating(ratings[i].rating)]]

\* the databases get_engine chooses between
Dialects == {"sqlite", "postgresql"}

\* image_id = Column(String(100)): PostgreSQL refuses a longer value, SQLite
\* stores it
FitsColumn(dialect_, image_id) ==
    dialect_ = "sqlite" \/ ~(image_id \in {WideId, LongId})

\* a commit that replaces the row a user already has for an image
CommitReplacing(rows, added, dialect_) ==
    LET kept == SelectSeq(rows, LAMBDA r :
                    ~\E i \in 1..Len(added) :
                        added[i].user_id = r.user_id /\ added[i].image_id = r.image_id)
    IN  [ok |-> TRUE, rows |-> kept \o added]

\* db.commit() of a session with these rows added: the INSERTs are flushed
\* in one transaction, which fails as a whole when a value does not fit
Commit(rows, added, dialect_) ==
    IF \A i \in 1..Len(added) : FitsColumn(dialect_, added[i].image_id)
    THEN [ok |-> TRUE, rows |-> rows \o added]
    ELSE [ok |-> FALSE, rows |-> rows]

\* POST /api/calibration/submit by user u, served by w, up to save_vector
SubmitCalibration(w, u, ratings) ==
    /\ up[w] /\ pc[w] = "idle" /\ started < MaxCalls
    /\ started' = started + 1
    /\ IF ratings = <<>> \/ \E i \in 1..Len(ratings) : ~ValidRating(ratings[i].rating)
       THEN /\ resp' = [resp EXCEPT ![w] =
                          [kind |-> "http", user |-> u, nratings |-> Len(ratings),
                           inrange |-> InRange(ratings), status |-> "400",
                           detail |-> IF ratings = <<>> THEN "No ratings provided"
                                      ELSE "Invalid rating: must be 1-5",
                           body |-> NoArtifact]]
            /\ UNCHANGED <<cls, dialect, users, reg, tokens, psychometric_complete, responses, call, result, dir, files, dbRows, complete, now, up, epoch, salt, theta,
                           rng, pc, req, vector_data, pos, session, ncalls, returned,
                           saved, hist, demoLog, demoAll>>
       ELSE Calibrate(w, u, ratings, "http", RatingRows(u, ratings))

\* save_vector: mkdir, open(vector_path, "w")
SaveOpen(w) ==
    /\ pc[w] = "save_open"
    /\ LET o == OpenWrite(files[VectorPath(req[w].user)])
       IN  /\ files' = [files EXCEPT ![VectorPath(req[w].user)] = o.file]
           /\ pos' = [pos EXCEPT ![w] = [at |-> o.pos, done |-> 0]]
    /\ pc' = [pc EXCEPT ![w] = "save_write"]
    /\ UNCHANGED <<cls, dialect, users, reg, tokens, psychometric_complete, responses, call, result, dir, dbRows, complete, now, up, epoch, salt, theta, rng, req,
                   vector_data, session, resp, started, ncalls, returned, saved, hist,
                   demoLog, demoAll>>

\* json.dump fills the file's buffer; a full buffer is written to the file
SaveWrite(w) ==
    /\ pc[w] = "save_write"
    /\ LET doc == JsonDump(vector_data[w])
       IN  /\ Len(doc) - pos[w].done > BufTokens
           /\ files' = [files EXCEPT ![VectorPath(req[w].user)] =
                          WriteAt(@, pos[w].at,
                                  SubSeq(doc, pos[w].done + 1, pos[w].done + BufTokens))]
           /\ pos' = [pos EXCEPT ![w] = [at |-> @.at + BufTokens, done |-> @.done + BufTokens]]
    /\ UNCHANGED <<cls, dialect, users, reg, tokens, psychometric_complete, responses, call, result, dir, dbRows, complete, now, up, epoch, salt, theta, rng, pc, req,
                   vector_data, session, resp, started, ncalls, returned, saved, hist,
                   demoLog, demoAll>>

\* whether every image id of the ratings took the demo fallback
DemoMode(ratings) == \A i \in 1..Len(ratings) : IsDemo(dir, ratings[i].id)

\* the end of "with open(...)": the rest of the buffer is written and the
\* file closed; save_vector returns, and calibrate_user returns vector_data
SaveClose(w) ==
    /\ pc[w] = "save_write"
    /\ LET doc == JsonDump(vector_data[w])
           u   == req[w].user
       IN  /\ Len(doc) - pos[w].done <= BufTokens
           /\ files' = [files EXCEPT ![VectorPath(u)] =
                          WriteAt(@, pos[w].at, SubSeq(doc, pos[w].done + 1, Len(doc)))]
           /\ saved' = [saved EXCEPT ![u] = TRUE]
           /\ returned' = [returned EXCEPT ![u] = [present |-> TRUE, val |-> vector_data[w]]]
           /\ hist' = (IF hist = <<>> THEN <<>> ELSE <<hist[Len(hist)]>>) \o
                      <<[worker |-> w, epoch |-> epoch[w], user |-> u,
                         ratings |-> req[w].ratings, demo |-> DemoMode(req[w].ratings),
                         val |-> vector_data[w]]>>
           /\ IF req[w].kind = "direct"
              THEN /\ pc' = [pc EXCEPT ![w] = "idle"]
                   /\ resp' = [resp EXCEPT ![w] =
                                 [kind |-> "direct", user |-> u,
                                  nratings |-> Len(req[w].ratings),
                                  inrange |-> InRange(req[w].ratings),
                                  status |-> "ok", detail |-> "", body |-> vector_data[w]]]
              ELSE /\ pc' = [pc EXCEPT ![w] = "commit"]
                   /\ resp' = resp
    /\ pos' = [pos EXCEPT ![w] = [at |-> 0, done |-> 0]]
    /\ UNCHANGED <<cls, dialect, users, reg, tokens, psychometric_complete, responses, call, result, dir, dbRows, complete, now, up, epoch, salt, theta, rng, req,
                   vector_data, session, started, ncalls, demoLog, demoAll>>

\* a progress flag that a failed commit hands back as False
FlagOfCommit(flag, ok) == ok

\* the stored progress flag after "current_user.<flag> = True; db.commit()":
\* True when the commit succeeded, what it was when the commit failed
CommittedFlag(flag, ok) == IF ok THEN TRUE ELSE flag

\* current_user.calibration_complete = True; db.commit(); return vector_data
SubmitCommit(w) ==
    /\ pc[w] = "commit"
    /\ LET c == Commit(dbRows, session[w], dialect)
       IN  /\ complete' = [complete EXCEPT ![req[w].user] = CommittedFlag(@, c.ok)]
           /\ dbRows' = c.rows
           /\ resp' = [resp EXCEPT ![w] =
                         [kind |-> "http", user |-> req[w].user,
                          nratings |-> Len(req[w].ratings),
                          inrange |-> InRange(req[w].ratings),
                          status |-> IF c.ok THEN "200" ELSE "500",
                          detail |-> IF c.ok THEN "" ELSE "Internal Server Error",
                          body |-> IF c.ok THEN vector_data[w] ELSE NoArtifact]]
    /\ session' = [session EXCEPT ![w] = <<>>]
    /\ pc' = [pc EXCEPT ![w] = "idle"]
    /\ UNCHANGED <<cls, dialect, users, reg, tokens, psychometric_complete, responses, call, result, dir, files, now, up, epoch, salt, theta, rng, req, vector_data, pos,
                   started, ncalls, returned, saved, hist, demoLog, demoAll>>

\* what GET /api/calibration/vector answers a user with this flag whose
\* file loads like this: 404 without the flag or without a file, the
\* artifact, or 500 when load_vector raises
GetVectorResponse(u, flag, loaded) ==
    LET r == [NoResp EXCEPT !.kind = "vector", !.user = u]
    IN  IF ~flag
        THEN [r EXCEPT !.status = "404", !.detail = "Calibration not yet completed"]
        ELSE IF loaded.kind = "JSONDecodeError"
        THEN [r EXCEPT !.status = "500", !.detail = "Internal Server Error"]
        ELSE IF loaded.kind = "None"
        THEN [r EXCEPT !.status = "404", !.detail = "Visual vector not found"]
        ELSE [r EXCEPT !.status = "200", !.body = loaded.val]

\* GET /api/calibration/vector by user u, served by w
GetVisualVector(w, u) ==
    /\ up[w] /\ pc[w] = "idle"
    /\ resp' = [resp EXCEPT ![w] =
                  GetVectorResponse(u, complete[u], LoadVector(files[VectorPath(u)]))]
    /\ UNCHANGED <<cls, dialect, users, reg, tokens, psychometric_complete, responses, call, result, dir, files, dbRows, complete, now, up, epoch,
                   salt, theta, rng, pc, req, vector_data, pos, session, started, ncalls,
                   returned, saved, hist, demoLog, demoAll>>

(***************************************************************************)
(* POST /api/auth/register.  The handler runs without interruption within  *)
(* its process; between its statements on the database another process    *)
(* may run its own.                                                        *)
(***************************************************************************)
\* what register requests carry (UserCreate, valid)
Emails == {"ann@x.org", "bob@x.org"}
Usernames == {"ann", "bob"}

\* the users table without its constraints on email and username
PrimaryKeyOnly(table, row) == \E i \in 1..Len(table) : table[i].id = row.id

\* the constraints of the users table that an INSERT of row violates:
\* primary key, unique email, unique username
UniqueViolation(table, row) ==
    \E i \in 1..Len(table) :
        \/ table[i].id = row.id
        \/ table[i].email = row.email
        \/ table[i].username = row.username

\* db.query(User).filter(User.email == email).first() is not None
EmailExists(table, email) == \E i \in 1..Len(table) : table[i].email = email
\* db.query(User).filter(User.username == username).first() is not None
UsernameExists(table, username) == \E i \in 1..Len(table) : table[i].username = username

\* User(id=str(uuid.uuid4()), ...): an id no row has, with the defaults of
\* the other columns ("" is None)
NewUser(table, email, username) ==
    [id |-> Len(table) + 1, email |-> email, username |-> username,
     gender |-> "", preference_target |-> "",
     calibration_complete |-> FALSE, psychometric_complete |-> FALSE]

RegisterUnchanged ==
    UNCHANGED <<cls, dialect, psychometric_complete, responses, call, result, dir, files, dbRows,
                complete, now, up, epoch, salt, theta, rng, pc, req, vector_data, pos,
                session, resp, started, ncalls, returned, saved, hist, demoLog, demoAll>>

\* register, up to its query for the email
RegisterCheckEmail(w, email, username) ==
    /\ up[w] /\ pc[w] = "idle" /\ reg[w].at = "none"
    /\ reg' = [reg EXCEPT ![w] =
                 IF EmailExists(users, email)
                 THEN [NoRegister EXCEPT !.email = email, !.username = username,
                                         !.status = "400",
                                         !.detail = "Email already registered"]
                 ELSE [NoRegister EXCEPT !.email = email, !.username = username,
                                         !.at = "username"]]
    /\ UNCHANGED <<users, tokens>>
    /\ RegisterUnchanged

\* register: its query for the username
RegisterCheckUsername(w) ==
    /\ reg[w].at = "username"
    /\ reg' = [reg EXCEPT ![w] =
                 IF UsernameExists(users, reg[w].username)
                 THEN [@ EXCEPT !.at = "none", !.status = "400",
                                !.detail = "Username already taken"]
                 ELSE [@ EXCEPT !.at = "commit"]]
    /\ UNCHANGED <<users, tokens>>
    /\ RegisterUnchanged

\* register: db.add(new_user), db.commit(), the access token and the answer;
\* a commit that violates a constraint raises IntegrityError
RegisterCommit(w) ==
    /\ reg[w].at = "commit"
    /\ LET new_user == NewUser(users, reg[w].email, reg[w].username)
       IN  IF UniqueViolation(users, new_user)
           THEN /\ reg' = [reg EXCEPT ![w] = [@ EXCEPT !.at = "none", !.status = "500",
                                                       !.detail = "Internal Server Error"]]
                /\ UNCHANGED <<users, tokens>>
           ELSE /\ users' = Append(users, new_user)
                /\ tokens' = tokens \cup {new_user.id}
                /\ reg' = [reg EXCEPT ![w] = [@ EXCEPT !.at = "none", !.status = "200",
                                                       !.token = new_user.id]]
    /\ RegisterUnchanged

(***************************************************************************)
(* The functions of the service called on their own, on arguments drawn    *)
(* from bounded sets.                                                      *)
(***************************************************************************)
Stars == 1..5

\* lists of at most n ratings
RECURSIVE StarSeqs(_)
StarSeqs(n) ==
    IF n = 0 THEN {<<>>}
    ELSE LET shorter == StarSeqs(n - 1)
         IN  shorter \cup
             {Append(q, r) : q \in {x \in shorter : Len(x) = n - 1}, r \in Stars}

\* features of known values: all zeros, all ones, one in the first entry
OnesVec == [i \in 1..Dim |-> Scale]
UnitVec == [i \in 1..Dim |-> IF i = 1 THEN Scale ELSE 0]
KnownFeatures == {ZeroVec, OnesVec, UnitVec}

\* between 1 and n rated features
RECURSIVE RatedFeatureSeqs(_)
RatedFeatureSeqs(n) ==
    IF n = 0 THEN {<<>>}
    ELSE LET shorter == RatedFeatureSeqs(n - 1)
         IN  shorter \cup
             {Append(q, [feature |-> f, rating |-> r]) :
                 q \in {x \in shorter : Len(x) = n - 1}, f \in KnownFeatures, r \in Stars}

FeatureArgs(fn) ==
    {[NoCall EXCEPT !.fn = fn,
                    !.features = [i \in 1..Len(q) |-> q[i].feature],
                    !.ratings = [i \in 1..Len(q) |-> q[i].rating]] :
        q \in RatedFeatureSeqs(MaxItems) \ {<<>>}}

\* directories with every combination of an a.jpg, a.png, b.jpg and b.png
\* that is absent, a picture (another one for .png than for .jpg) or no image
ResolveDirs ==
    {[NoImages EXCEPT ![<<"a", "jpg">>] = j1, ![<<"a", "png">>] = p1,
                      ![<<"b", "jpg">>] = j2, ![<<"b", "png">>] = p2] :
        j1 \in {0, 1, -1}, p1 \in {0, 3, -1}, j2 \in {0, 1, -1}, p2 \in {0, 3, -1}}

Calls ==
    {[NoCall EXCEPT !.fn = "_calculate_confidence", !.ratings = l] : l \in StarSeqs(MaxListLen)}
    \cup FeatureArgs("aggregated_features")
    \cup FeatureArgs("ideal_vector")
    \cup {[NoCall EXCEPT !.fn = "get_calibration_images", !.names = S, !.count = c] :
            S \in SUBSET ListingNames, c \in (0 - MaxCount)..MaxCount}
    \cup {[NoCall EXCEPT !.fn = "features_list", !.dir = d, !.items = q] :
            d \in ResolveDirs, q \in ValidSubmissions \ {<<>>}}

InitCalls ==
    /\ InitService /\ dir = NoImages
    /\ dialect = "sqlite"
    /\ call \in Calls
    /\ result = NoResult

Pending(fn) == call.fn = fn /\ ~result.done

ServiceUnchanged ==
    UNCHANGED <<cls, dialect, users, reg, tokens, psychometric_complete, responses, call, dir, files, dbRows, complete, now, up, epoch, salt, theta, rng, pc,
                req, vector_data, pos, session, resp, started, ncalls, returned, saved,
                hist, demoLog, demoAll>>

\* _calculate_confidence(ratings_list)
CallCalculateConfidence ==
    /\ Pending("_calculate_confidence")
    /\ result' = [NoResult EXCEPT !.done = TRUE,
                                  !.confidence = CalculateConfidence(call.ratings)]
    /\ ServiceUnchanged

\* the partition and the aggregation of calibrate_user on a list of
\* features and ratings
CallAggregateFeatures ==
    /\ Pending("aggregated_features")
    /\ result' = [NoResult EXCEPT !.done = TRUE,
                                  !.liked = LikedFeatures(call.features, call.ratings),
                                  !.disliked = DislikedFeatures(call.features, call.ratings),
                                  !.vector = AggregateFeatures(call.features, call.ratings)]
    /\ ServiceUnchanged

\* the ideal vector of calibrate_user on a list of features and ratings
CallIdealVector ==
    /\ Pending("ideal_vector")
    /\ result' = [NoResult EXCEPT !.done = TRUE,
                                  !.vector = IdealVector(call.features, call.ratings)]
    /\ ServiceUnchanged

\* get_calibration_images(count)
CallGetCalibrationImages ==
    /\ Pending("get_calibration_images")
    /\ result' = [NoResult EXCEPT !.done = TRUE,
                                  !.images = GetCalibrationImages(call.names, call.count)]
    /\ ServiceUnchanged

\* the loop of calibrate_user that resolves each image id to a feature
CallResolveFeatures ==
    /\ Pending("features_list")
    /\ LET res == ResolveFeatures(call.dir, salt[1], "absent", call.items,
                       [ok |-> TRUE, error |-> "", features |-> <<>>, rng |-> rng[1],
                        demo |-> {}])
       IN  result' = [NoResult EXCEPT !.done = TRUE, !.ok = res.ok,
                                      !.features = res.features, !.demo = res.demo]
    /\ ServiceUnchanged

NextCalls ==
    \/ CallResolveFeatures
    \/ CallCalculateConfidence
    \/ CallAggregateFeatures
    \/ CallIdealVector
    \/ CallGetCalibrationImages

SpecCalls == InitCalls /\ [][NextCalls]_vars

\* one process serves the requests, one at a time
Next ==
    \/ StartProcess(1)
    \/ \E u \in Users, q \in ValidSubmissions : CalibrateUser(1, u, q)
    \/ \E u \in Users, q \in Submissions : SubmitCalibration(1, u, q)
    \/ SaveOpen(1)
    \/ SaveWrite(1)
    \/ SaveClose(1)
    \/ SubmitCommit(1)

Spec == Init /\ [][Next]_vars

\* one process that may be restarted between the calls it serves
NextRestart ==
    \/ StartProcess(1)
    \/ RestartProcess(1)
    \/ \E u \in Users, q \in ValidSubmissions : CalibrateUser(1, u, q)
    \/ SaveOpen(1)
    \/ SaveWrite(1)
    \/ SaveClose(1)

SpecRestart == Init /\ [][NextRestart]_vars

\* the image ids a request body may name: any string
RequestIds == ImageIds \cup {LongId}

\* submissions of at most one rating, for any such id
IdSubmissions ==
    {<<>>} \cup {<<[id |-> i, rating |-> r]>> : i \in RequestIds, r \in RatingVals}

\* one process serves submissions that name image ids of any kind
NextIds ==
    \/ StartProcess(1)
    \/ \E u \in Users, q \in IdSubmissions : SubmitCalibration(1, u, q)
    \/ SaveOpen(1)
    \/ SaveWrite(1)
    \/ SaveClose(1)
    \/ SubmitCommit(1)

SpecIds == Init /\ [][NextIds]_vars



(***************************************************************************)
(* The psychometric questionnaire.                                         *)
(***************************************************************************)
\* the fixed questions, two of the five standing for all
FIXED_FIVE_QUESTIONS == {"dinner_check", "tech_meltdown"}

\* the ids of a question's options
OptionsOf(question_id) ==
    IF question_id = "dinner_check" THEN {"dc_a", "dc_b"}
    ELSE IF question_id = "tech_meltdown" THEN {"tm_a"}
    ELSE {}

\* the answers a request may carry: for a known question an option of that
\* question or of another one, and an answer to a question that is not asked
AnswerVals ==
    {[question_id |-> "dinner_check", selected_option_id |-> "dc_a"],
     [question_id |-> "dinner_check", selected_option_id |-> "tm_a"],
     [question_id |-> "tech_meltdown", selected_option_id |-> "tm_a"],
     [question_id |-> "other", selected_option_id |-> "dc_a"]}

PsychometricSubmissions == UNION {[1..n -> AnswerVals] : n \in 0..MaxAnswers}

\* the rows the loop adds to the session: one per answer to a known question
ResponseRows(u, answers) ==
    LET known == SelectSeq(answers, LAMBDA a : a.question_id \in FIXED_FIVE_QUESTIONS)
    IN  [i \in 1..Len(known) |->
            [user_id |-> u, question_id |-> known[i].question_id,
             selected_option_id |-> known[i].selected_option_id]]

\* POST /api/psychometric/submit by user u, served by w
SubmitAnswers(w, u, answers) ==
    /\ up[w] /\ pc[w] = "idle" /\ Len(responses) < MaxResponses
    /\ LET answered_ids == {answers[i].question_id : i \in 1..Len(answers)}
           missing == FIXED_FIVE_QUESTIONS \ answered_ids
           invalid == \E i \in 1..Len(answers) :
                         /\ answers[i].question_id \in FIXED_FIVE_QUESTIONS
                         /\ ~(answers[i].selected_option_id \in OptionsOf(answers[i].question_id))
           r == [NoResp EXCEPT !.kind = "psychometric", !.user = u]
       IN  IF missing # {}
           THEN /\ resp' = [resp EXCEPT ![w] =
                              [r EXCEPT !.status = "400", !.detail = "Missing answers"]]
                /\ UNCHANGED <<responses, psychometric_complete>>
           ELSE IF invalid
           THEN /\ resp' = [resp EXCEPT ![w] =
                              [r EXCEPT !.status = "400", !.detail = "Invalid option"]]
                /\ UNCHANGED <<responses, psychometric_complete>>
           ELSE /\ responses' = responses \o ResponseRows(u, answers)
                /\ psychometric_complete' =
                       [psychometric_complete EXCEPT ![u] = CommittedFlag(@, TRUE)]
                /\ resp' = [resp EXCEPT ![w] = [r EXCEPT !.status = "200"]]
    /\ UNCHANGED <<cls, dialect, users, reg, tokens, call, result, dir, files, dbRows,
                   complete, now, up, epoch, salt, theta, rng, pc, req, vector_data, pos,
                   session, started, ncalls, returned, saved, hist, demoLog, demoAll>>

\* a deployment over either database, without calibration images
InitDeploy ==
    /\ InitService /\ dir = NoImages
    /\ dialect \in Dialects
    /\ call = NoCall
    /\ result = NoResult

\* submissions of at most one rating whose image id may be longer than the
\* image_id column is wide
WideSubmissions ==
    {<<>>} \cup {<<[id |-> i, rating |-> r]>> : i \in ImageIds \cup {WideId}, r \in RatingVals}

\* one process of such a deployment serves submissions
NextDeploy ==
    \/ StartProcess(1)
    \/ \E u \in Users, q \in WideSubmissions : SubmitCalibration(1, u, q)
    \/ SaveOpen(1)
    \/ SaveWrite(1)
    \/ SaveClose(1)
    \/ SubmitCommit(1)

SpecDeploy == InitDeploy /\ [][NextDeploy]_vars


\* the calibration submissions of the scenario of the two flags: accepted,
\* rejected for its rating, and one whose image id may not fit its column
FlagSubmissions ==
    {<<[id |-> "a", rating |-> 5]>>, <<[id |-> "a", rating |-> 0]>>,
     <<[id |-> WideId, rating |-> 1]>>}

\* one process serves a user's calibration submissions while another serves
\* the same user's psychometric submissions
NextFlags ==
    \/ \E w \in Workers : StartProcess(w)
    \/ \E q \in FlagSubmissions : SubmitCalibration(1, "u1", q)
    \/ SaveOpen(1)
    \/ SaveWrite(1)
    \/ SaveClose(1)
    \/ SubmitCommit(1)
    \/ \E a \in PsychometricSubmissions : SubmitAnswers(2, "u1", a)

SpecFlags == InitDeploy /\ [][NextFlags]_vars

\* the scenario of concurrent submissions: no calibration images
InitConc == Init /\ dir = NoImages

\* the submissions of that scenario: one rating each
ConcSubmissions == {q \in ValidSubmissions : Len(q) = 1}

\* several processes over one data directory and one database serve
\* submissions of the same user
NextConc ==
    \E w \in Workers :
        \/ StartProcess(w)
        \/ \E q \in ConcSubmissions : SubmitCalibration(w, "u1", q)
        \/ SaveOpen(w)
        \/ SaveWrite(w)
        \/ SaveClose(w)
        \/ SubmitCommit(w)

SpecConc == InitConc /\ [][NextConc]_vars

\* one process serves the submissions of a user while another serves the
\* reads of the users' vectors
NextVector ==
    \/ \E w \in Workers : StartProcess(w)
    \/ \E q \in ConcSubmissions : SubmitCalibration(1, "u1", q)
    \/ SaveOpen(1)
    \/ SaveWrite(1)
    \/ SaveClose(1)
    \/ SubmitCommit(1)
    \/ \E u \in Users : GetVisualVector(2, u)

SpecVector == InitConc /\ [][NextVector]_vars

\* several processes over one database serve register requests
NextRegister ==
    \E w \in Workers :
        \/ StartProcess(w)
        \/ \E e \in Emails, n \in Usernames : RegisterCheckEmail(w, e, n)
        \/ RegisterCheckUsername(w)
        \/ RegisterCommit(w)

SpecRegister == InitConc /\ [][NextRegister]_vars

\* VisualService(**args): __new__, then __init__ on what it returned
Construct(args) ==
    /\ cls.constructions < MaxConstructions
    /\ \E cuda_available \in BOOLEAN :
         LET n == cls.constructions + 1
             c == New(cls)
             r == ServiceInit(c.instance, args, cuda_available, n)
         IN  cls' = [c EXCEPT !.instance = r.self,
                              !.constructions = n,
                              !.loadedAt = IF r.loaded THEN @ \cup {n} ELSE @,
                              !.completed = IF @ = 0 /\ ~r.raised THEN n ELSE @,
                              !.mkdirs = @ \cup r.mkdirs,
                              !.last = [args |-> args, raised |-> r.raised,
                                        id |-> IF r.raised THEN 0 ELSE r.self.id]]
    /\ UNCHANGED <<dialect, users, reg, tokens, psychometric_complete, responses, call, result, dir, files, dbRows, complete, now, up, epoch, salt, theta,
                   rng, pc, req, vector_data, pos, session, resp, started, ncalls,
                   returned, saved, hist, demoLog, demoAll>>

\* one process constructs the service again and again
NextSingleton == \E args \in ConstructorArgs : Construct(args)

SpecSingleton == Init /\ [][NextSingleton]_vars

(***************************************************************************)
(* Properties.                                                             *)
(***************************************************************************)
Loaded(u) == LoadVector(files[VectorPath(u)])
AsArtifact(a) == [kind |-> "artifact", val |-> a]
Idle == \A w \in Workers : pc[w] = "idle"
Saving(u) == \E w \in Workers : pc[w] = "save_write" /\ req[w].user = u

\* C1: a call of calibrate_user that raises (it is counted in ncalls and
\* does not go on to save_vector) leaves every stored artifact as it was
C1_RaiseKeepsArtifact ==
    [][(ncalls' = ncalls + 1 /\ pc' = pc) => files' = files]_vars

\* a call raised on an image file that cannot be decoded, for a user who
\* has an artifact stored
C1_Witness ==
    \E w \in Workers :
        /\ resp[w].status = "Exception"
        /\ files[resp[w].user].exists
        /\ returned[resp[w].user].present

\* C2: in every state, also between the start and the end of a
\* save_vector call, the artifact stored for a user is absent or is the
\* complete artifact of a call that succeeded
C2_AbsentOrComplete ==
    \A u \in Users :
        \/ Loaded(u).kind = "None"
        \/ /\ Loaded(u).kind = "artifact"
           /\ \/ returned[u].present /\ Loaded(u).val = returned[u].val
              \/ \E w \in Workers :
                    pc[w] # "idle" /\ req[w].user = u /\ Loaded(u).val = vector_data[w]

InvalidSubmissions == {q \in Submissions : q = <<>> \/ ~InRange(q)}

\* C3: a submission that is empty or carries a rating outside 1..5 is
\* answered 400 and changes nothing: no row is added or pending, no call
\* of calibrate_user is made, no artifact is written, the flag stays
C3_InvalidRejected ==
    [][\A w \in Workers, u \in Users, q \in InvalidSubmissions :
          SubmitCalibration(w, u, q) =>
              /\ resp'[w].status = "400"
              /\ dbRows' = dbRows
              /\ session' = session
              /\ ncalls' = ncalls
              /\ files' = files
              /\ complete' = complete
              /\ pc'[w] = "idle"]_vars

\* a submission with a rating out of range was rejected after an earlier
\* submission of that user had been committed
C3_Witness ==
    \E w \in Workers :
        /\ resp[w].kind = "http" /\ resp[w].status = "400"
        /\ resp[w].nratings > 0 /\ ~resp[w].inrange
        /\ complete[resp[w].user]
        /\ dbRows # <<>>

\* C4: while no save for the user is under way, load_vector returns
\* exactly the artifact of the last call that returned for that user
C4_LoadsLastReturned ==
    \A u \in Users :
        (returned[u].present /\ ~Saving(u)) => Loaded(u) = AsArtifact(returned[u].val)

\* two calls for the same user have returned different artifacts
C4_Witness ==
    /\ Len(hist) = 2 /\ Idle
    /\ hist[1].user = hist[2].user
    /\ hist[1].val # hist[2].val

\* C5: when save_vector(user_id, artifact) ends, load_vector(user_id)
\* returns a dict equal to the artifact saved
C5_SaveLoadRoundTrip ==
    [][\A w \in Workers :
          (pc[w] = "save_write" /\ pc'[w] # "save_write") =>
              LoadVector(files'[req[w].user]) = AsArtifact(vector_data[w])]_vars

\* an artifact with a non-empty ideal_vector and one with an empty one
\* have been saved
C5_Witness ==
    \E u, v \in Users :
        /\ saved[u] /\ saved[v] /\ Idle
        /\ returned[u].val.preference_model.ideal_vector # <<>>
        /\ returned[v].val.preference_model.ideal_vector = <<>>

\* C6: load_vector returns None for a user whose file does not exist, and
\* returns an artifact only when some save_vector for the user completed
C6_NoneUnlessSaved ==
    \A u \in Users :
        /\ ~files[u].exists => Loaded(u).kind = "None"
        /\ Loaded(u).kind = "artifact" => saved[u]
        /\ (~saved[u] /\ ~Saving(u)) => Loaded(u).kind = "None"

\* one user has an artifact, the other has none
C6_Witness ==
    \E u, v \in Users : Loaded(u).kind = "artifact" /\ Loaded(v).kind = "None"

\* C7: once the concurrent requests of a user have completed, the stored
\* artifact is exactly the artifact of the request whose write came last
C7_LastWriterWins ==
    Idle => \A u \in Users :
                returned[u].present => Loaded(u) = AsArtifact(returned[u].val)

SameCall(x, y) == x.user = y.user /\ x.ratings = y.ratings
SameRun(x, y) == x.worker = y.worker /\ x.epoch = y.epoch
ButTimestamp(a) == [a EXCEPT !.meta.calibration_timestamp = 0]

UnitNorm(v) == Norm(v) >= Scale - Dim /\ Norm(v) <= Scale + Dim

C10_SameAcrossRuns ==
    \A w \in Workers : \A x, y \in demoAll[w] : x.id = y.id => x.out = y.out

\* worker w takes a step of the call it serves
WorkerMoved(w) == pc'[w] # pc[w] \/ pos'[w] # pos[w]

\* a step of a direct call of calibrate_user by w that succeeds: the
\* computation, or a step of its save_vector
DirectCallStep(w) ==
    \/ pc[w] = "idle" /\ pc'[w] = "save_open" /\ req'[w].kind = "direct"
    \/ pc[w] \in {"save_open", "save_write"} /\ req[w].kind = "direct" /\ WorkerMoved(w)

\* C11: a successful calibrate_user call changes nothing but the artifact
\* of the calling user: the relational store, the image directory, the
\* network parameters, the hash salt and the state of the global
\* random-number generator are after each of its steps as before
C11_OnlyArtifactChanges ==
    [][\A w \in Workers :
          DirectCallStep(w) =>
              /\ dbRows' = dbRows /\ complete' = complete /\ session' = session
              /\ dir' = dir
              /\ theta' = theta /\ salt' = salt
              /\ rng' = rng
              /\ \A u \in Users \ {req'[w].user} : files'[u] = files[u]]_vars

\* C12: the artifact of a user is one file, and a step changes the file of
\* a user only as part of a save_vector for that very user
C12_OtherUsersUntouched ==
    [][\A u \in Users :
          files'[u] # files[u] =>
              \E w \in Workers :
                  /\ pc[w] \in {"save_open", "save_write"} /\ WorkerMoved(w)
                  /\ req[w].user = u]_vars

\* each of the two users has the artifact of a call of their own, the
\* second saved while the first was stored
C12_Witness ==
    /\ Idle /\ Len(hist) = 2 /\ hist[1].user # hist[2].user
    /\ \A i \in 1..2 : Loaded(hist[i].user) = AsArtifact(hist[i].val)

C14_EmbeddingAndCount ==
    /\ \A i \in 1..Len(hist) :
          /\ Len(hist[i].val.self_analysis.embedding_vector) = Dim
          /\ hist[i].val.meta.images_rated = Len(hist[i].ratings)
    /\ \A w \in Workers :
          resp[w].status \in {"ok", "200"} =>
              /\ Len(resp[w].body.self_analysis.embedding_vector) = Dim
              /\ resp[w].body.meta.images_rated = resp[w].nratings

\* calls with one rating and with two ratings have returned
C14_Witness ==
    /\ Len(hist) = 2
    /\ Len(hist[1].ratings) = 1 /\ Len(hist[2].ratings) = 2

\* the file that the lookup resolves for some id of the ratings exists and
\* cannot be decoded
ResolvedCorrupt(ratings) ==
    \E i \in 1..Len(ratings) : dir[ImagePath(dir, ratings[i].id)] < 0

\* some file <id>.jpg or <id>.png of some id of the ratings exists and
\* cannot be decoded
AnyCorruptFile(ratings) ==
    \E i \in 1..Len(ratings) : \E e \in Exts : dir[<<ratings[i].id, e>>] < 0

\* the failure of a submission is caused by what the caller sent: no
\* rating, a rating outside 1..5, or an image id that cannot be a file name
CallerCaused(q) ==
    q = <<>> \/ ~InRange(q) \/ \E i \in 1..Len(q) : NameTooLong(q[i].id)

\* C19: a submission that fails is answered 400 exactly when the failure
\* is caused by the caller's input, and 500 otherwise; either way the flag
\* stays, no row is committed and none stays pending
C19_DistinctFailures ==
    [][\A w \in Workers, u \in Users, q \in Submissions \cup IdSubmissions :
          (started' = started + 1 /\ pc'[w] = "idle" /\ SubmitCalibration(w, u, q)) =>
              /\ resp'[w].status \in {"400", "500"}
              /\ resp'[w].status = "400" <=> CallerCaused(q)
              /\ complete' = complete
              /\ dbRows' = dbRows
              /\ session'[w] = <<>>]_vars

\* C20: whenever a file <id>.jpg or <id>.png of a submitted id exists and
\* cannot be decoded, the call fails and writes no artifact
C20_AnyCorruptFileFails ==
    [][\A w \in Workers, u \in Users, q \in ValidSubmissions :
          (AnyCorruptFile(q) /\ started' = started + 1
              /\ (CalibrateUser(w, u, q) \/ SubmitCalibration(w, u, q))) =>
              /\ pc'[w] = "idle"
              /\ resp'[w].status \in {"Exception", "500"}
              /\ files' = files]_vars

\* C20 as amended: whenever the file that the lookup resolves for a
\* submitted id (<id>.jpg if it exists, else <id>.png) cannot be decoded, the
\* call fails in its one call of calibrate_user, no demo feature is made
\* for an id that has a file, and no artifact is written
C20_ResolvedCorruptFileFails ==
    [][\A w \in Workers, u \in Users, q \in ValidSubmissions :
          (ResolvedCorrupt(q) /\ started' = started + 1
              /\ (CalibrateUser(w, u, q) \/ SubmitCalibration(w, u, q))) =>
              /\ pc'[w] = "idle"
              /\ resp'[w].status \in {"Exception", "500"}
              /\ ncalls' = ncalls + 1
              /\ \A x \in demoLog'[w] \ demoLog[w] : IsDemo(dir, x.id)
              /\ files' = files
              /\ session'[w] = <<>>]_vars

\* a call with two ratings failed on a file that cannot be decoded, the
\* user's earlier artifact being stored
C20_Witness ==
    \E w \in Workers :
        /\ resp[w].status \in {"Exception", "500"} /\ resp[w].nratings = 2
        /\ pc[w] = "idle"
        /\ returned[resp[w].user].present
        /\ Loaded(resp[w].user) = AsArtifact(returned[resp[w].user].val)

Returned(fn) == call.fn = fn /\ result.done

\* n(n-1) times the sample variance of a list of n ratings
SquaredDeviations(l) ==
    Len(l) * SumSeq([i \in 1..Len(l) |-> l[i] * l[i]]) - SumSeq(l) * SumSeq(l)

\* C15: the confidence is in [0,1]; it is 0.5 for fewer than 3 ratings; for
\* 3 or more it is 1 when variance/2 >= 1 and otherwise within half a
\* hundredth of variance/2; [1,1,1,5,5,5] gets more than [3,3,3,3,3,3]
C15_Confidence ==
    Returned("_calculate_confidence") =>
        LET l == call.ratings
            n == Len(l)
            c == result.confidence
        IN  /\ 0 <= c /\ c <= Scale
            /\ n < 3 => c = Scale \div 2
            /\ n >= 3 =>
                 IF SquaredDeviations(l) >= 2 * n * (n - 1) THEN c = Scale
                 ELSE /\ 2 * n * (n - 1) * c - Scale * SquaredDeviations(l) <= n * (n - 1)
                      /\ Scale * SquaredDeviations(l) - 2 * n * (n - 1) * c <= n * (n - 1)
            /\ l = <<1, 1, 1, 5, 5, 5>> => c = Scale
            /\ l = <<3, 3, 3, 3, 3, 3>> => c = 0

\* a list of 4 ratings got a confidence strictly between 0 and 1 that is
\* a tie of the rounding: [1,1,1,2] has variance/2 = 0.125
C15_Witness ==
    /\ Returned("_calculate_confidence")
    /\ call.ratings = <<1, 1, 1, 2>>
    /\ result.confidence = 12

\* sum over the list of (rating - 1) * feature[d], and of (rating - 1)
WeightedSum(features, ratings_list, d) ==
    SumSeq([i \in 1..Len(features) |-> (ratings_list[i] - 1) * features[i][d]])
WeightTotal(ratings_list) ==
    SumSeq([i \in 1..Len(ratings_list) |-> ratings_list[i] - 1])

\* C16: the weight of rating r is (r-1)/4, and the aggregated signal is the
\* sum over all rated features of weight times feature divided by the sum
\* of the weights (all zeros when every weight is 0)
C16_WeightedMean ==
    /\ \A r \in Stars : 4 * Weight(r) = (r - 1) * Scale
    /\ Weight(1) = 0 /\ 2 * Weight(3) = Scale /\ Weight(5) = Scale
    /\ Returned("aggregated_features") =>
          \A d \in 1..Dim :
              LET num == WeightedSum(call.features, call.ratings, d)
                  den == WeightTotal(call.ratings)
                  agg == result.vector[d]
              IN  IF den = 0 THEN agg = 0
                  ELSE 0 <= num - agg * den /\ num - agg * den < den

\* ratings 1, 3 and 5 of known features were aggregated to a signal that
\* is not zero
C16_Witness ==
    /\ Returned("aggregated_features")
    /\ call.ratings = <<1, 3, 5>>
    /\ call.features = <<OnesVec, UnitVec, ZeroVec>>
    /\ result.vector # ZeroVec

\* the positions of the ratings 4 and 5
LikedAt(ratings_list) == {i \in 1..Len(ratings_list) : ratings_list[i] \in {4, 5}}

RECURSIVE SumOver(_, _, _)
SumOver(I, features, d) ==
    IF I = {} THEN 0
    ELSE LET i == CHOOSE x \in I : TRUE
         IN  features[i][d] + SumOver(I \ {i}, features, d)

\* C17: the ideal vector is empty exactly when no rating is >= 4, and is
\* otherwise the mean of the features rated 4 or 5; all-zeros and all-ones
\* liked give all-0.5
C17_IdealVector ==
    Returned("ideal_vector") =>
        LET I == LikedAt(call.ratings)
            v == result.vector
        IN  /\ v = <<>> <=> I = {}
            /\ I # {} =>
                 /\ Len(v) = Dim
                 /\ \A d \in 1..Dim :
                       LET sum == SumOver(I, call.features, d)
                       IN  0 <= sum - v[d] * Cardinality(I)
                           /\ sum - v[d] * Cardinality(I) < Cardinality(I)
            /\ (call.features = <<ZeroVec, OnesVec>> /\ I = {1, 2})
                  => v = [d \in 1..Dim |-> Scale \div 2]

\* the ideal vector of a liked all-zeros, a liked all-ones and a rating of
\* 3 was computed
C17_Witness ==
    /\ Returned("ideal_vector")
    /\ call.features = <<ZeroVec, OnesVec, UnitVec>>
    /\ call.ratings = <<4, 5, 3>>
    /\ result.vector = [d \in 1..Dim |-> Scale \div 2]

\* the files of the directory that the glob matches
Matching(names) == {x \in names : GlobMatches(x)}

\* C18: get_calibration_images(count) returns at most count entries (none
\* for a count below 0): the first matching files in filename order when
\* there are any, else demo_1, demo_2, ...
C18_AtMostCount ==
    Returned("get_calibration_images") =>
        LET images == result.images
            limit  == IF call.count < 0 THEN 0 ELSE call.count
            real   == Sorted(Matching(call.names))
        IN  /\ Len(images) <= limit
            /\ Matching(call.names) # {} =>
                  \A i \in 1..Len(images) : images[i] = ImageEntry(real[i])
            /\ Matching(call.names) = {} =>
                  \A i \in 1..Len(images) : images[i] = DemoEntry(i)

\* a construction has happened in this step
Constructed == cls'.constructions = cls.constructions + 1

\* C21 as stated: across any sequence of constructions the networks are
\* loaded exactly once, at the first construction, and every later
\* construction returns the same instance with its models and its
\* directories unchanged, whatever arguments it is given
C21_LoadedOnceAtFirst ==
    /\ [](cls.constructions >= 1 => cls.loadedAt = {1})
    /\ [][cls.constructions >= 1 /\ Constructed =>
            /\ cls'.instance = cls.instance
            /\ cls'.last.id = cls.instance.id]_vars

\* C21: the networks the instance holds are those built by the first
\* construction that returns, and no construction after it builds networks;
\* every construction after it returns the same instance with its models and
\* its directories unchanged, whatever arguments it is given; a construction
\* that raises leaves the instance uninitialized
C21_LoadedByFirstCompleted ==
    /\ [](cls.completed # 0 =>
            /\ cls.instance.initialized
            /\ cls.instance.backbone.load = cls.completed
            /\ cls.instance.learner.load = cls.completed
            /\ \A n \in cls.loadedAt : n <= cls.completed)
    /\ [][cls.completed # 0 /\ Constructed =>
            /\ cls'.instance = cls.instance
            /\ cls'.last.id = cls.instance.id
            /\ ~cls'.last.raised
            /\ cls'.mkdirs = cls.mkdirs]_vars
    /\ [][Constructed /\ cls'.last.raised => ~cls'.instance.initialized]_vars

\* three constructions: the first returned, the third was given another data
\* directory, a device torch does not know and weights it cannot read
C21_Witness ==
    /\ cls.constructions = 3
    /\ cls.completed = 1
    /\ cls.last.args.data_dir # cls.instance.data_dir
    /\ cls.last.args.device = "bogus"
    /\ cls.last.args.backbone_weights = "garbage"
    /\ cls.last.id = cls.instance.id

\* the artifact that a call with these ratings alone gives at time ts
ArtifactOf(w, u, ratings, ts) ==
    CalibrateCompute(dir, salt[w], 0, theta[w], ts, "absent", u, ratings,
                     Gender(u), PreferenceTarget(u)).vector_data

\* w ends a submission with success in this step
Committed(w) == pc[w] = "commit" /\ pc'[w] = "idle" /\ resp'[w].status = "200"

\* C22: a successful submission appends one row for each of its (image id,
\* rating) pairs to the rows stored before, which stay as they are, and the
\* stored artifact is then the one computed from that submission alone; no
\* other step changes the rows
C22_RowsKeptArtifactReplaced ==
    [][/\ \A w \in Workers :
            Committed(w) =>
                /\ dbRows' = dbRows \o RatingRows(req[w].user, req[w].ratings)
                /\ LoadVector(files'[VectorPath(req[w].user)]) =
                       AsArtifact(ArtifactOf(w, req[w].user, req[w].ratings,
                                             vector_data[w].meta.calibration_timestamp))
       /\ (\A w \in Workers : ~Committed(w)) => dbRows' = dbRows]_vars

\* a user has rated the same image twice, differently: both rows are stored
\* and the artifact is the one of the second submission
C22_Witness ==
    /\ Idle /\ Len(hist) = 2 /\ Len(dbRows) = 2
    /\ dbRows[1].user_id = dbRows[2].user_id
    /\ dbRows[1].image_id = dbRows[2].image_id
    /\ dbRows[1].rating # dbRows[2].rating
    /\ hist[1].val # hist[2].val
    /\ Loaded(dbRows[2].user_id) = AsArtifact(hist[2].val)

\* the positions of the ratings in a set of values
RatedIn(ratings_list, vals) == {i \in 1..Len(ratings_list) : ratings_list[i] \in vals}

\* the liked and the disliked features are those of the ratings 4, 5 and of
\* the ratings 1, 2: no image is in both lists and one rated 3 is in neither
PartitionByRating ==
    /\ Len(result.liked) = Cardinality(RatedIn(call.ratings, {4, 5}))
    /\ Len(result.disliked) = Cardinality(RatedIn(call.ratings, {1, 2}))
    /\ Len(result.liked) + Len(result.disliked)
           + Cardinality(RatedIn(call.ratings, {3})) = Len(call.ratings)
    /\ \A r \in Stars : ~(Liked(r) /\ Disliked(r))
    /\ ~Liked(3) /\ ~Disliked(3)

\* the feature at position i counts in the aggregated signal: the signal
\* is another one for some other feature there
Contributes(i) ==
    \E f \in KnownFeatures :
        AggregateFeatures([call.features EXCEPT ![i] = f], call.ratings) # result.vector

\* C23 as stated: the liked and the disliked set are disjoint, an image
\* rated 3 is in neither, and every rated image contributes its feature to
\* the aggregated signal
C23_EveryImageContributes ==
    Returned("aggregated_features") =>
        /\ PartitionByRating
        /\ \A i \in 1..Len(call.ratings) : Contributes(i)

\* C23: the liked and the disliked set are disjoint, an image rated 3 is in
\* neither, and every image rated 2 or more, in whichever set or in none,
\* contributes its feature to the aggregated signal, while the feature of
\* an image rated 1 (weight 0) does not count in it
C23_AllButRatedOneContribute ==
    Returned("aggregated_features") =>
        /\ PartitionByRating
        /\ \A i \in 1..Len(call.ratings) : Contributes(i) <=> call.ratings[i] >= 2

\* a liked, a neutral and a disliked image were aggregated: the neutral one
\* is in neither list and counts in the signal
C23_Witness ==
    /\ Returned("aggregated_features")
    /\ call.ratings = <<5, 3, 2>>
    /\ Len(result.liked) = 1 /\ Len(result.disliked) = 1
    /\ Contributes(2) /\ Contributes(3)

\* the file that stands for an image id in directory d: its .jpg when that
\* exists, else its .png when that exists, else none ("")
UsedExt(d, image_id) ==
    IF d[<<image_id, "jpg">>] # 0 THEN "jpg"
    ELSE IF d[<<image_id, "png">>] # 0 THEN "png" ELSE ""

\* C24: each image id is resolved by itself and in a fixed order: the
\* feature is that of <id>.jpg when it exists, that of <id>.png only when
\* the .jpg does not exist, and the demo feature only when neither exists;
\* the loop fails exactly when a file so chosen cannot be decoded
C24_JpgThenPngThenDemo ==
    Returned("features_list") =>
        LET q   == call.items
            bad == {i \in 1..Len(q) :
                       /\ UsedExt(call.dir, q[i].id) # ""
                       /\ call.dir[<<q[i].id, UsedExt(call.dir, q[i].id)>>] < 0}
        IN  /\ result.ok <=> bad = {}
            /\ result.ok =>
                 /\ Len(result.features) = Len(q)
                 /\ \A i \in 1..Len(q) :
                      LET x == UsedExt(call.dir, q[i].id)
                      IN  IF x = ""
                          THEN \E e \in result.demo :
                                  e.id = q[i].id /\ e.out = result.features[i]
                          ELSE /\ result.features[i] =
                                      BackboneFeature(call.dir[<<q[i].id, x>>])
                               /\ \A e \in result.demo : e.id # q[i].id

\* one call mixes a real and a demo feature: a has a .jpg and another
\* picture as .png, b has no file
C24_Witness ==
    /\ Returned("features_list") /\ result.ok
    /\ Len(call.items) = 2
    /\ call.dir[<<"a", "jpg">>] = 1 /\ call.dir[<<"a", "png">>] = 3
    /\ call.dir[<<"b", "jpg">>] = 0 /\ call.dir[<<"b", "png">>] = 0
    /\ result.features[1] = BackboneFeature(1)
    /\ {e.id : e \in result.demo} = {"b"}

\* every rating of a non-empty mapping is 1
AllOnes(ratings) == ratings # <<>> /\ \A i \in 1..Len(ratings) : ratings[i].rating = 1

\* the features calibrate_user resolves for these ratings in process w
FeaturesOf(w, ratings) ==
    ResolveFeatures(dir, salt[w], "absent", ratings,
        [ok |-> TRUE, error |-> "", features |-> <<>>, rng |-> rng[w], demo |-> {}]).features

\* C25: a call whose ratings are all 1 does not fail: all its weights are
\* 0, its aggregated signal is the all-zero vector, and it goes on to save
\* a complete artifact (the embedding of the zero signal, no ideal vector,
\* every image counted), which is stored once the call has returned
C25_AllOnesStillCalibrates ==
    /\ [][\A w \in Workers, u \in Users, q \in ValidSubmissions :
            (AllOnes(q) /\ ~ResolvedCorrupt(q) /\ started' = started + 1
                /\ (CalibrateUser(w, u, q) \/ SubmitCalibration(w, u, q))) =>
                /\ \A i \in 1..Len(q) : Weight(q[i].rating) = 0
                /\ AggregateFeatures(FeaturesOf(w, q),
                                     [i \in 1..Len(q) |-> q[i].rating]) = ZeroVec
                /\ pc'[w] = "save_open"
                /\ vector_data'[w].self_analysis.embedding_vector =
                       GetUserWeights(theta[w], ZeroVec)
                /\ Len(vector_data'[w].self_analysis.embedding_vector) = Dim
                /\ vector_data'[w].preference_model.ideal_vector = NoVector
                /\ vector_data'[w].meta.images_rated = Len(q)]_vars
    /\ [](\A i \in 1..Len(hist) :
            (i = Len(hist) /\ Idle /\ AllOnes(hist[i].ratings)) =>
                Loaded(hist[i].user) = AsArtifact(hist[i].val))

\* a call that rated two images 1 has returned and its artifact is stored
C25_Witness ==
    /\ Idle /\ hist # <<>>
    /\ AllOnes(hist[Len(hist)].ratings) /\ Len(hist[Len(hist)].ratings) = 2
    /\ Loaded(hist[Len(hist)].user) = AsArtifact(hist[Len(hist)].val)
    /\ hist[Len(hist)].val.preference_model.ideal_vector = NoVector
    /\ hist[Len(hist)].val.meta.images_rated = 2

\* C26: GET /api/calibration/vector answers 200 only to a user whose flag
\* is set and whose artifact is stored, and then with that stored artifact;
\* in every other case it answers 404
C26_ArtifactOr404 ==
    [][\A w \in Workers, u \in Users :
          GetVisualVector(w, u) =>
              IF complete[u] /\ Loaded(u).kind = "artifact"
              THEN resp'[w].status = "200" /\ resp'[w].body = Loaded(u).val
              ELSE resp'[w].status = "404" /\ resp'[w].body = NoArtifact]_vars

\* the email or the username of a request is that of a stored user
Taken(email, username) == EmailExists(users, email) \/ UsernameExists(users, username)

\* w takes a step of a register request
RegisterStep(w) == reg'[w] # reg[w]

\* C27: no two stored users share an email or a username, however the
\* register requests interleave; a step of a request whose email or
\* username is taken adds no user and issues no token, and a token is
\* issued only for the user the same step has added
C27_UniqueUsers ==
    /\ [](\A i, j \in 1..Len(users) :
            i # j => /\ users[i].email # users[j].email
                     /\ users[i].username # users[j].username)
    /\ [][\A w \in Workers :
            (RegisterStep(w) /\ Taken(reg'[w].email, reg'[w].username)) =>
                /\ users' = users /\ tokens' = tokens
                /\ reg'[w].token = 0]_vars
    /\ [][tokens' # tokens =>
            /\ Len(users') = Len(users) + 1
            /\ tokens' = tokens \cup {users'[Len(users')].id}]_vars

\* two users are stored, and a request that passed both queries before
\* another process committed the same email has failed at its commit
C27_Witness ==
    /\ Len(users) = 2
    /\ \E w \in Workers :
          /\ reg[w].status = "500" /\ reg[w].token = 0
          /\ EmailExists(users, reg[w].email)

\* C28: in every state a user whose calibration_complete flag is set has a
\* stored artifact
C28_FlagImpliesArtifact ==
    \A u \in Users : complete[u] => Loaded(u).kind = "artifact"

\* C29: a submit request is all-or-nothing across the two stores: a request
\* that has written its artifact ends with its rows committed and the flag
\* set, and a request that ends without having written changes nothing
C29_AllOrNothing ==
    [][\A w \in Workers :
          /\ (pc[w] = "commit" /\ pc'[w] = "idle") =>
                /\ resp'[w].status = "200"
                /\ complete'[req[w].user]
                /\ dbRows' = dbRows \o session[w]
          /\ (pc[w] = "idle" /\ pc'[w] = "idle" /\ started' # started) =>
                /\ files' = files
                /\ dbRows' = dbRows
                /\ complete' = complete]_vars

\* C30: the progress flags are monotonic: no step, of a failed or rejected
\* request included, turns a user's calibration_complete or
\* psychometric_complete from true to false
C30_FlagsMonotonic ==
    [][\A u \in Users :
          /\ complete[u] => complete'[u]
          /\ psychometric_complete[u] => psychometric_complete'[u]]_vars

\* both flags of a user are set and the last calibration submission and the
\* last psychometric submission of that user have both failed
C30_Witness ==
    /\ resp[1].kind = "http" /\ resp[1].status \in {"400", "500"}
    /\ complete[resp[1].user]
    /\ resp[2].kind = "psychometric" /\ resp[2].status = "400"
    /\ psychometric_complete[resp[2].user]

====
